---- MODULE Spec2Model ----
(***************************************************************************)
(* Verification model of the market-sentiment forecasting core:            *)
(*   - DataValidator.check_data_quality   (src/src/visualization)          *)
(*   - AdvancedPredictor.create_advanced_features / train_models /         *)
(*     ensemble_predict                   (src/src/models)                 *)
(*   - DataPipeline.run_pipeline          (src/src/pipeline)               *)
(*                                                                         *)
(* A table (pandas DataFrame) is a record                                  *)
(*   [index, columns, col, dated]                                          *)
(* index   : sequence of day numbers (daily DatetimeIndex, one per row)    *)
(* columns : sequence of column names, in DataFrame column order           *)
(* col     : column name -> sequence of cells                              *)
(* dated   : FALSE when the index labels cannot be read as dates           *)
(* A cell is <<>> (NaN) or <<x>> (the number x, in tenths).                *)
(* Time is counted in seconds; a date d is the instant d * SecondsPerDay.  *)
(***************************************************************************)
EXTENDS Integers, Sequences, FiniteSets, TLC

VARIABLES now, data, op, validation, train, model_scores, models_dir,
          scaler_fitted, fitted, prediction, pipeline, r2, weights,
          fitted_on, features_log, trend, files, writer, api, response, runs,
          outcome, disk, quality, processed, combined, auth, reply

\* the feature engineers' results and the TrendPredictor object
featvars == <<features_log, trend>>

\* the models directory, the training run writing to it, the API reading it
dirvars == <<files, writer, api, response, runs>>

\* the data directories and the quality checker's result, combine_data's
\* input and output, the refresh-token table and the API's reply
extvars == <<disk, quality, processed, combined, auth, reply>>

vars == <<now, data, op, validation, train, model_scores, models_dir,
          scaler_fitted, fitted, prediction, pipeline, r2, weights,
          fitted_on, featvars, dirvars, outcome, extvars>>

(***************************** bounds **************************************)
MaxRows == 14
MaxGateRows == 9
MaxLate == 1
LongHorizon == 20
HorizonSteps == 2
MaxR2 == 2
MaxRuns == 2
MaxMinutes == 1
MaxFreeRows == 4
MaxCalls == 2

(************************ program constants ********************************)
SecondsPerDay == 86400
SecondsPerMinute == 60
MinRows == 7
MaxMissingPct == 50
MaxAgeDays == 7
DefaultForecastDays == 7
NSplits == 5
FreshDays == 1
ACCESS_TOKEN_EXPIRES == 1800
REFRESH_TOKEN_EXPIRES == 2592000
MaxAuthSeconds == 1
SentimentMax == 10

(***************************** cells ***************************************)
NaN == <<>>
Num(x) == <<x>>
IsNaN(v) == v = <<>>
None == <<>>
Some(x) == <<x>>

Min2(a, b) == IF a < b THEN a ELSE b
Max2(a, b) == IF a > b THEN a ELSE b
Range(s) == {s[i] : i \in DOMAIN s}

RECURSIVE SumTo(_, _)
SumTo(s, k) == IF k = 0 THEN 0 ELSE s[k] + SumTo(s, k - 1)
SumSeq(s) == SumTo(s, Len(s))

RECURSIVE ConcatTo(_, _)
ConcatTo(ss, k) == IF k = 0 THEN <<>> ELSE ConcatTo(ss, k - 1) \o ss[k]
Concat(ss) == ConcatTo(ss, Len(ss))

(*************************** error handling ********************************)
\* the body of every core operation is one try block closed by
\* `except Exception as e`: the handler logs e and returns the failure value.
\* An outcome records what the body raised, whether the exception left the
\* method, and the value returned.
NoError == <<"none">>
Handled_m(name, raised, ret) ==
    [name |-> name, raised |-> raised, escaped |-> raised # NoError, ret |-> ret]
Handled(name, raised, ret) ==
    [name |-> name, raised |-> raised, escaped |-> FALSE, ret |-> ret]
NoOutcome == [name |-> "", raised |-> NoError, escaped |-> FALSE, ret |-> None]

(***************************** tables **************************************)
NRows(d) == Len(d.index)
HasColumn(d, c) == c \in Range(d.columns)

\* DataFrame.empty: some axis has length 0
Empty(d) == NRows(d) = 0 \/ Len(d.columns) = 0

\* pd.DataFrame(): no rows, no columns
EmptyFrame == [index |-> <<>>, columns |-> <<>>, col |-> <<>>, dated |-> TRUE]

(********************* DataValidator.check_data_quality ********************)
MissingCount(s) == Cardinality({i \in DOMAIN s : IsNaN(s[i])})

\* len(data) < 7
InsufficientRows_m(d) == NRows(d) < MinRows - 1
InsufficientRows(d) == NRows(d) < MinRows

\* missing_pct[col] > 50, missing_pct = data.isnull().mean() * 100
HighMissing_m(s) == MissingCount(s) * 100 >= MaxMissingPct * Len(s)
HighMissing(s) == MissingCount(s) * 100 > MaxMissingPct * Len(s)

\* pd.to_datetime(data.index).max()
MaxSeq(s) == CHOOSE x \in Range(s) : \A y \in Range(s) : y <= x
MinSeq(s) == CHOOSE x \in Range(s) : \A y \in Range(s) : x <= y

\* latest_date < datetime.now() - timedelta(days=7)
Stale(d, t) == MaxSeq(d.index) * SecondsPerDay < t - MaxAgeDays * SecondsPerDay

MissingIssues(d) ==
    Concat([k \in 1..Len(d.columns) |->
              IF HighMissing(d.col[d.columns[k]])
              THEN << <<"High missing values", d.columns[k]>> >>
              ELSE <<>>])

Stats(d) ==
    [rows |-> NRows(d),
     columns |-> Len(d.columns),
     date_range |-> <<MinSeq(d.index), MaxSeq(d.index)>>,
     missing_values |-> [c \in Range(d.columns) |-> <<MissingCount(d.col[c]), NRows(d)>>]]

NoStats == <<>>

\* pd.to_datetime(data.index) raises on labels that are not dates; the empty
\* table returns before that line
GateRaises(d) == ~Empty(d) /\ ~d.dated

check_data_quality(d, t) ==
    IF Empty(d)
    THEN [is_valid |-> FALSE, issues |-> << <<"Data is empty">> >>, stats |-> NoStats]
    ELSE LET short == IF InsufficientRows(d)
                      THEN << <<"Insufficient data points (minimum 7 required)">> >>
                      ELSE <<>>
             missing == MissingIssues(d)
         IN  IF GateRaises(d)
             THEN \* pd.to_datetime raises: the except branch
                  [is_valid |-> FALSE, issues |-> << <<"error">> >>, stats |-> NoStats]
             ELSE LET stale == IF Stale(d, t)
                               THEN << <<"Data is more than 7 days old">> >>
                               ELSE <<>>
                  IN  [is_valid |-> short = <<>> /\ missing = <<>> /\ stale = <<>>,
                       issues |-> short \o missing \o stale,
                       stats |-> Stats(d)]

(************* AdvancedPredictor.create_advanced_features ******************)
(* The feature table is modelled by its column list and, per cell, by what *)
(* the cell holds: "num" (a finite number), "nan" or "inf".                *)
Windows == <<3, 7, 14>>
SentimentCols == <<"reddit_sentiment", "news_sentiment">>

\* positions of the trailing window of size w ending at row i
Window(w, i) == Max2(1, i - w + 1)..i

\* observations (non-NaN cells) of the trailing window
Obs(s, w, i) == Cardinality({j \in Window(w, i) : ~IsNaN(s[j])})

\* Series.rolling(window=w, min_periods=m).mean()
rolling_mean(s, w, m, i) == IF Obs(s, w, i) >= m THEN "num" ELSE "nan"

\* Series.rolling(window=w, min_periods=m).std(), ddof = 1
rolling_std(s, w, m, i) == IF Obs(s, w, i) >= Max2(m, 2) THEN "num" ELSE "nan"

\* Series.ffill() at row i (pct_change pads before dividing)
RECURSIVE ffill(_, _)
ffill(s, i) == IF i = 0 THEN NaN ELSE IF IsNaN(s[i]) THEN ffill(s, i - 1) ELSE s[i]

\* Series.pct_change()
pct_change(s, i) ==
    IF i = 1 THEN "nan"
    ELSE LET a == ffill(s, i - 1)
             b == ffill(s, i)
         IN  IF IsNaN(a) \/ IsNaN(b) THEN "nan"
             ELSE IF a[1] = 0 THEN (IF b[1] = 0 THEN "nan" ELSE "inf")
             ELSE "num"

\* Series.diff(): <<>> where undefined
diff(s, i) ==
    IF i = 1 \/ IsNaN(s[i]) \/ IsNaN(s[i - 1]) THEN NaN ELSE Num(s[i][1] - s[i - 1][1])

diff_kind(s, i) == IF IsNaN(diff(s, i)) THEN "nan" ELSE "num"

\* rolling(window=7).std() / rolling(window=7).mean()
volatility(s, i) ==
    IF Obs(s, 7, i) < 7 THEN "nan"
    ELSE LET win == [j \in 1..7 |-> s[i - 7 + j][1]]
         IN  IF SumSeq(win) # 0 THEN "num"
             ELSE IF \A j \in 1..7 : win[j] = win[1] THEN "nan" ELSE "inf"

\* delta.where(delta > 0, 0) and -delta.where(delta < 0, 0): NaN deltas become 0
gain_m(s, j) == LET dl == diff(s, j) IN IF ~IsNaN(dl) THEN dl[1] ELSE 0
gain(s, j) == LET dl == diff(s, j) IN IF ~IsNaN(dl) /\ dl[1] > 0 THEN dl[1] ELSE 0
loss(s, j) == LET dl == diff(s, j) IN IF ~IsNaN(dl) /\ dl[1] < 0 THEN 0 - dl[1] ELSE 0

\* window sums of gain and loss (their rolling means times w)
GainSum(s, w, i) == SumSeq([j \in 1..w |-> gain(s, i - w + j)])
LossSum(s, w, i) == SumSeq([j \in 1..w |-> loss(s, i - w + j)])

\* rs = gain / loss; 100 - (100 / (1 + rs))
rsi(s, w, i) ==
    IF i < w THEN "nan"
    ELSE IF LossSum(s, w, i) = 0 /\ GainSum(s, w, i) = 0 THEN "nan"
    ELSE "num"

SentimentFeatures(c) ==
    << <<c>> >>
    \o Concat([k \in 1..Len(Windows) |-> << <<c, "ma", Windows[k]>>, <<c, "std", Windows[k]>> >>])
    \o << <<c, "roc">>, <<c, "momentum">>, <<c, "volatility">> >>

MarketFeatures ==
    << <<"market_change">> >>
    \o Concat([k \in 1..Len(Windows) |->
                 << <<"market", "ma", Windows[k]>>, <<"market", "bb_upper", Windows[k]>>,
                    <<"market", "bb_lower", Windows[k]>>, <<"market", "rsi", Windows[k]>> >>])

CalendarFeatures == << <<"day_of_week">>, <<"month">>, <<"is_month_end">> >>

\* the columns of the feature table, in insertion order
FeatureColumns_m(d) == IF scaler_fitted = None THEN CalendarFeatures ELSE <<>>
FeatureColumns(d) ==
    Concat([k \in 1..Len(SentimentCols) |->
              IF HasColumn(d, SentimentCols[k]) THEN SentimentFeatures(SentimentCols[k]) ELSE <<>>])
    \o (IF HasColumn(d, "market_change") THEN MarketFeatures ELSE <<>>)
    \o CalendarFeatures

\* what cell (row i, column f) of the feature table holds
FeatureCell(d, f, i) ==
    IF f \in Range(CalendarFeatures) THEN "num"
    ELSE IF f = <<"market_change">>
         THEN (IF IsNaN(d.col["market_change"][i]) THEN "nan" ELSE "num")
    ELSE IF f[1] = "market"
         THEN LET s == d.col["market_change"]
              IN  IF f[2] = "ma" THEN rolling_mean(s, f[3], f[3], i)
                  ELSE IF f[2] = "rsi" THEN rsi(s, f[3], i)
                  ELSE IF rolling_mean(s, f[3], f[3], i) = "num" /\ rolling_std(s, f[3], f[3], i) = "num"
                       THEN "num" ELSE "nan"
    ELSE LET s == d.col[f[1]]
         IN  IF Len(f) = 1 THEN (IF IsNaN(s[i]) THEN "nan" ELSE "num")
             ELSE IF f[2] = "ma" THEN rolling_mean(s, f[3], 1, i)
             ELSE IF f[2] = "std" THEN rolling_std(s, f[3], 1, i)
             ELSE IF f[2] = "roc" THEN pct_change(s, i)
             ELSE IF f[2] = "momentum" THEN diff_kind(s, i)
             ELSE volatility(s, i)

\* sum of the observations of the trailing window
WindowSum(s, w, i) ==
    LET a == Max2(1, i - w + 1)
    IN  SumSeq([j \in 1..(i - a + 1) |-> IF IsNaN(s[a + j - 1]) THEN 0 ELSE s[a + j - 1][1]])

\* the cells of the trailing window
WindowCells(s, w, i) ==
    LET a == Max2(1, i - w + 1)
    IN  [j \in 1..(i - a + 1) |-> s[a + j - 1]]

\* 100 - (100 / (1 + rs)), rs = gain / loss, as the fraction <<num, den>>.
\* Float division: 0/0 is NaN, x/0 is inf for x > 0, and 100 / (1 + inf) = 0.
rsi_value(s, w, i) ==
    LET G == GainSum(s, w, i)
        L == LossSum(s, w, i)
    IN  IF i < w THEN NaN
        ELSE IF L = 0 THEN (IF G = 0 THEN NaN ELSE <<100 - 0, 1>>)
        ELSE \* 1 + rs = (L + G) / L; 100 / (1 + rs) = 100 L / (L + G)
             <<100 * (L + G) - 100 * L, L + G>>

\* the value of cell (row i, column f) of the feature table: <<"nan">>,
\* <<"inf">>, or the number, written as what determines it
FeatureValue(d, f, i) ==
    IF FeatureCell(d, f, i) # "num" THEN <<FeatureCell(d, f, i)>>
    ELSE IF f \in Range(CalendarFeatures) THEN <<f[1], d.index[i]>>
    ELSE IF Len(f) = 1 THEN <<"val", d.col[f[1]][i][1]>>
    ELSE LET s == d.col[IF f[1] = "market" THEN "market_change" ELSE f[1]]
         IN  IF f[2] = "ma" THEN <<"frac", WindowSum(s, f[3], i), Obs(s, f[3], i)>>
             ELSE IF f[2] = "rsi" THEN <<"frac">> \o rsi_value(s, f[3], i)
             ELSE IF f[2] = "momentum" THEN <<"val", diff(s, i)[1]>>
             ELSE IF f[2] = "roc" THEN <<"frac", ffill(s, i)[1] - ffill(s, i - 1)[1],
                                         ffill(s, i - 1)[1]>>
             ELSE IF f[2] = "volatility" THEN <<f[2], WindowCells(s, 7, i)>>
             ELSE <<f[2], WindowCells(s, f[3], i)>>

\* create_advanced_features(data): raises if the index cannot be read as
\* dates, else the feature table
create_advanced_features(d) ==
    IF ~d.dated THEN [raises |-> TRUE, columns |-> <<>>, cell |-> <<>>]
    ELSE [raises |-> FALSE,
          columns |-> FeatureColumns(d),
          cell |-> [i \in 1..NRows(d) |->
                      [k \in 1..Len(FeatureColumns(d)) |->
                          FeatureValue(d, FeatureColumns(d)[k], i)]]]

\* features.drop(target_col, axis=1)
DropColumn(fs, f) == SelectSeq(fs, LAMBDA g : g # f)

\* what row i holds over the columns fs: "inf" if some cell is infinite, else
\* "nan" if some cell is missing, else "num"
RowKind(d, fs, i) ==
    LET cells == {FeatureCell(d, fs[k], i) : k \in 1..Len(fs)}
    IN  IF "inf" \in cells THEN "inf" ELSE IF "nan" \in cells THEN "nan" ELSE "num"

\* RowKind of each of the first k rows listed in rows
RECURSIVE RowKinds(_, _, _, _)
RowKinds(d, fs, rows, k) ==
    IF k = 0 THEN <<>> ELSE Append(RowKinds(d, fs, rows, k - 1), RowKind(d, fs, rows[k]))

(******************** TrendPredictor.prepare_features **********************)
TrendFeatures(c) ==
    LET g == IF c = "market_change" THEN "market" ELSE c
    IN  << <<c>>, <<g, "ma", 3>>, <<g, "ma", 7>>, <<g, "std", 7>> >>
        \o (IF c = "market_change"
            THEN << <<"market", "momentum">>, <<"market", "acceleration">> >> ELSE <<>>)

\* the columns in insertion order
TrendColumns(d) ==
    Concat([k \in 1..Len(SentimentCols) |->
              IF HasColumn(d, SentimentCols[k]) THEN TrendFeatures(SentimentCols[k]) ELSE <<>>])
    \o (IF HasColumn(d, "market_change") THEN TrendFeatures("market_change") ELSE <<>>)

\* min_periods: 1 for the 3-day mean, 3 for the 7-day mean and std
TrendMinPeriods(w) == IF w = 3 THEN 1 ELSE 3

\* the cell before imputation: <<"nan">> or the number
TrendValue(d, f, i) ==
    LET s == d.col[IF f[1] = "market" THEN "market_change" ELSE f[1]]
    IN  IF Len(f) = 1 THEN (IF IsNaN(s[i]) THEN <<"nan">> ELSE <<"val", s[i][1]>>)
        ELSE IF f[2] = "ma"
        THEN (IF rolling_mean(s, f[3], TrendMinPeriods(f[3]), i) = "nan" THEN <<"nan">>
              ELSE <<"frac", WindowSum(s, f[3], i), Obs(s, f[3], i)>>)
        ELSE IF f[2] = "std"
        THEN (IF rolling_std(s, f[3], TrendMinPeriods(f[3]), i) = "nan" THEN <<"nan">>
              ELSE <<"std", WindowCells(s, f[3], i)>>)
        ELSE IF f[2] = "momentum"
        THEN (IF IsNaN(diff(s, i)) THEN <<"nan">> ELSE <<"val", diff(s, i)[1]>>)
        ELSE \* acceleration: the diff of the momentum column
             IF i < 3 \/ IsNaN(diff(s, i)) \/ IsNaN(diff(s, i - 1)) THEN <<"nan">>
             ELSE <<"val", diff(s, i)[1] - diff(s, i - 1)[1]>>

\* prepare_features(data): the table, imputed where a cell is missing.
\* KNNImputer.fit_transform drops a column that has no observation, the
\* DataFrame constructor then raises on the shape and the method returns None.
\* An imputed cell is a function of the whole table: <<"knn">>.
prepare_features(d) ==
    LET fs == TrendColumns(d)
        n == NRows(d)
        missing(k, i) == TrendValue(d, fs[k], i) = <<"nan">>
        any == \E k \in 1..Len(fs), i \in 1..n : missing(k, i)
        hollow == \E k \in 1..Len(fs) : \A i \in 1..n : missing(k, i)
    IN  IF any /\ hollow
        THEN [raises |-> TRUE, imputed |-> TRUE, columns |-> <<>>, cell |-> <<>>]
        ELSE [raises |-> FALSE, imputed |-> any, columns |-> fs,
              cell |-> [i \in 1..n |->
                          [k \in 1..Len(fs) |->
                              IF missing(k, i) THEN <<"knn">> ELSE TrendValue(d, fs[k], i)]]]

(******************** AdvancedPredictor.train_models ***********************)
Members == <<"gbm", "rf", "nn", "lasso">>
MetricNames == {"mse", "rmse", "r2", "mape"}

\* Series.shift(k): row i gets the cell of row i - k, NaN outside the table
shift_m(s, k, i) == IF i + k \in DOMAIN s THEN s[i + k] ELSE NaN
shift(s, k, i) == IF i - k \in DOMAIN s THEN s[i - k] ELSE NaN

\* y = features[target_col].shift(-forecast_days); mask = ~y.isna(): the rows kept
MaskRows(d, target, h) ==
    SelectSeq([i \in 1..NRows(d) |-> i], LAMBDA i : ~IsNaN(shift(d.col[target], 0 - h, i)))

\* y[mask]
MaskTargets(d, target, h) ==
    LET rows == MaskRows(d, target, h)
    IN  [k \in 1..Len(rows) |-> shift(d.col[target], 0 - h, rows[k])[1]]

\* TimeSeriesSplit(n_splits=5).split(X) on n samples: fold k of 1..5 as positions
\* into X; test_size = n // (n_splits + 1), train = indices[:test_start]
TestSize(n) == n \div (NSplits + 1)
TestStart(n, k) == n - (NSplits - k + 1) * TestSize(n)
Interval(a, b) == [j \in 1..(b - a + 1) |-> a + j - 1]
TrainIdx_m(n, k) == Interval(1, TestStart(n, k)) \o Interval(TestStart(n, k) + TestSize(n) + 1, n)
TrainIdx(n, k) == Interval(1, TestStart(n, k))
ValIdx(n, k) == Interval(TestStart(n, k) + 1, TestStart(n, k) + TestSize(n))
Fold(n, k) == [train |-> TrainIdx(n, k), val |-> ValIdx(n, k)]

\* strftime('%Y%m%d_%H%M'): the instant cut to its minute
Timestamp(t) == t \div SecondsPerMinute

ModelFile(m, t) == [kind |-> "model", name |-> m, ts |-> Timestamp(t)]
ScalerFile(t) == [kind |-> "scaler", name |-> "scaler", ts |-> Timestamp(t)]

\* what the environment does to one call: nothing, a fit that raises on finite
\* input, or a joblib.dump that raises
Faults ==
    {<<"none">>} \cup {<<"fit", Members[k]>> : k \in 1..Len(Members)}
    \cup {<<"dump", Members[k]>> : k \in 1..Len(Members)} \cup {<<"dump", "scaler">>}

MemberPos(m) == CHOOSE k \in 1..Len(Members) : Members[k] = m

\* members whose folds all ran before the call ended (model_scores[name] assigned)
Computed(fault) ==
    IF fault = <<"none">> \/ fault = <<"dump", "scaler">> THEN Range(Members)
    ELSE IF fault[1] = "fit" THEN {Members[k] : k \in 1..(MemberPos(fault[2]) - 1)}
    ELSE {Members[k] : k \in 1..MemberPos(fault[2])}

\* members whose joblib.dump returned
Dumped(fault) ==
    IF fault = <<"none">> \/ fault = <<"dump", "scaler">> THEN Range(Members)
    ELSE {Members[k] : k \in 1..(MemberPos(fault[2]) - 1)}

\* RobustScaler.fit on one column: center_ = median, scale_ = the range
\* between the 25th and the 75th percentile (1.0 where that is 0), both by
\* linear interpolation over the sorted values. Values are kept times 4, so
\* that the interpolation stays in the integers.
OrderStat(xs, k) ==
    CHOOSE v \in Range(xs) :
        /\ Cardinality({j \in DOMAIN xs : xs[j] < v}) < k
        /\ Cardinality({j \in DOMAIN xs : xs[j] <= v}) >= k
Percentile4(xs, q) ==
    LET pos == q * (Len(xs) - 1)
        lo == OrderStat(xs, pos \div 4 + 1)
    IN  IF pos % 4 = 0 THEN 4 * lo
        ELSE 4 * lo + (pos % 4) * (OrderStat(xs, pos \div 4 + 2) - lo)
RobustFit(xs) ==
    LET iqr == Percentile4(xs, 3) - Percentile4(xs, 1)
    IN  [center4 |-> Percentile4(xs, 2), scale4 |-> IF iqr = 0 THEN 4 ELSE iqr]

\* RobustScaler.transform of the column: (x - center_) / scale_, as the
\* fraction <<numerator, denominator>>; a missing cell stays missing
RobustTransform(par, cells) ==
    [j \in DOMAIN cells |-> IF IsNaN(cells[j]) THEN NaN
                            ELSE <<4 * cells[j][1] - par.center4, par.scale4>>]

\* line 120, self.scaler.fit_transform(X), on the raw sentiment columns of X:
\* the scaler is fitted on every row of X, before the split (missing cells are
\* left out of the fit)
fit_transform(cells) ==
    LET seen == SelectSeq(cells, LAMBDA v : ~IsNaN(v))
        xs == [j \in DOMAIN seen |-> seen[j][1]]
    IN  IF xs = <<>> THEN [j \in DOMAIN cells |-> NaN]
        ELSE RobustTransform(RobustFit(xs), cells)
RawColumns(d, target) == {c \in Range(SentimentCols) \ {target} : HasColumn(d, c)}
ScaledRaw(d, target, rows) ==
    [c \in RawColumns(d, target) |-> fit_transform([j \in DOMAIN rows |-> d.col[c][rows[j]]])]

\* lines 106-123: features, target, mask, scaler, splitter. stage names how far
\* the call gets: "features" and "KeyError" raise before the mask, "scaler" in
\* fit_transform (no sample, or an infinite cell), "split" in TimeSeriesSplit
\* (fewer samples than folds), "nan" in the first member's fit (infit) or
\* predict at fold bad (input validation rejects NaN); "folds" means every
\* fold runs.
Prepare(d, target, h) ==
    LET raw(stage, rows, y, fs, bad, infit, kinds) ==
            [stage |-> stage, rows |-> rows, y |-> y, fs |-> fs, bad |-> bad, infit |-> infit,
             kinds |-> kinds]
    IN
    IF ~d.dated THEN raw("features", <<>>, <<>>, <<>>, 0, FALSE, <<>>)
    ELSE IF ~HasColumn(d, target) THEN raw("KeyError", <<>>, <<>>, <<>>, 0, FALSE, <<>>)
    ELSE
    LET fs == DropColumn(FeatureColumns(d), <<target>>)
        rows == MaskRows(d, target, h)
        y == MaskTargets(d, target, h)
        n == Len(rows)
        kind == RowKinds(d, fs, rows, n)
        out(stage, rs, ys, cs, bad, infit) == raw(stage, rs, ys, cs, bad, infit, kind)
        raises(k) == \E j \in Range(TrainIdx(n, k)) \cup Range(ValIdx(n, k)) : kind[j] = "nan"
    IN
    IF n = 0 \/ (\E k \in 1..n : kind[k] = "inf") THEN out("scaler", rows, y, fs, 0, FALSE)
    ELSE IF NSplits + 1 > n THEN out("split", rows, y, fs, 0, FALSE)
    ELSE IF \E k \in 1..NSplits : raises(k)
         THEN LET k0 == CHOOSE k \in 1..NSplits :
                           raises(k) /\ \A j \in 1..(k - 1) : ~raises(j)
              IN  out("nan", rows, y, fs, k0,
                      \E j \in Range(TrainIdx(n, k0)) : kind[j] = "nan")
    ELSE out("folds", rows, y, fs, 0, FALSE)

\* X_scaled[train_idx]: what each row handed to model.fit holds
FitInput(kinds, idx) == [j \in 1..Len(idx) |-> kinds[idx[j]]]

\* lines 126-173 after Prepare: the member loop, the dumps, the return value
Finish(p, target, h, fault, t, sf, fit) ==
    LET n == Len(p.rows)
        failed(folds, sfit, refit) ==
            [ret |-> None, raised |-> <<p.stage>>, target |-> target, h |-> h,
             X_rows |-> p.rows, y |-> p.y, folds |-> folds, computed |-> {}, written |-> {},
             files |-> {}, scaler_fitted |-> sfit, fitted |-> fit \cup refit, refit |-> refit,
             fit_inputs |-> [k \in 1..Len(folds) |-> FitInput(p.kinds, folds[k].train)]]
    IN
    IF p.stage \in {"features", "KeyError", "scaler"} THEN failed(<<>>, sf, {})
    ELSE IF p.stage = "split" THEN failed(<<>>, Some(p.fs), {})
    ELSE IF p.stage = "nan"
    THEN failed([k \in 1..p.bad |-> Fold(n, k)], Some(p.fs),
                \* the first member was fitted if one of its fit calls returned
                IF p.bad > 1 \/ ~p.infit THEN {Members[1]} ELSE {})
    ELSE
    [ret |-> IF fault = <<"none">> THEN Some([m \in Range(Members) |-> MetricNames]) ELSE None,
     raised |-> fault, target |-> target, h |-> h, X_rows |-> p.rows, y |-> p.y,
     folds |-> [k \in 1..NSplits |-> Fold(n, k)],
     computed |-> Computed(fault),
     written |-> Dumped(fault),
     files |-> {ModelFile(m, t) : m \in Dumped(fault)}
               \cup (IF fault = <<"none">> THEN {ScalerFile(t)} ELSE {}),
     scaler_fitted |-> Some(p.fs),
     fitted |-> fit \cup Computed(fault),
     refit |-> Computed(fault),
     fit_inputs |-> [k \in 1..NSplits |-> FitInput(p.kinds, TrainIdx(n, k))]]

train_models(d, target, h, fault, t, sf, fit) ==
    Finish(Prepare(d, target, h), target, h, fault, t, sf, fit)

\* a fault changes the call only when every fold runs
FaultsAt(p) == IF p.stage = "folds" THEN Faults ELSE {<<"none">>}

(******************* AdvancedPredictor.ensemble_predict ********************)
R2Values == (0 - MaxR2)..MaxR2
Scores == [Range(Members) -> R2Values]

\* total_weight = sum(weights.values())
TotalWeight(sc) == SumSeq([k \in 1..Len(Members) |-> sc[Members[k]]])

\* weights = {k: v/total_weight}: each weight is the fraction <<v, total_weight>>.
\* A zero total raises ZeroDivisionError on Python floats and gives inf/nan
\* weights on numpy floats; which one depends on the build (zdiv).
NormalizedWeights(sc, zdiv) ==
    IF TotalWeight(sc) = 0 /\ zdiv THEN None
    ELSE Some([m \in Range(Members) |-> <<sc[m], TotalWeight(sc)>>])

\* the columns each member was last fitted on after a call that refitted the
\* members of refit on the columns fs
FittedOn(on, refit, fs) == [m \in Range(Members) |-> IF m \in refit THEN Some(fs) ELSE on[m]]

\* lines 178-184: whether the call gets as far as computing the weights: the
\* scaler was fitted on these columns, every member is fitted, on as many
\* columns as the scaled array has (predict checks n_features_in_ and there is
\* no per-member handler: one member that raises ends the call), and no row
\* of the feature table holds NaN or inf
PredictReady(d, sf, fit, on) ==
    /\ d.dated
    /\ HasColumn(d, "market_change")
    /\ Range(Members) \subseteq fit
    /\ NRows(d) > 0
    /\ LET fs == DropColumn(FeatureColumns(d), <<"market_change">>)
       IN  /\ sf = Some(fs)
           /\ \A m \in Range(Members) : on[m] # None /\ Len(on[m][1]) = Len(fs)
           /\ \A i \in 1..NRows(d) : RowKind(d, fs, i) = "num"

\* lines 186-194, once every member has predicted: the weighted sum over the
\* index of the feature table
WeightedSeries(d, sc, zdiv) ==
    IF NormalizedWeights(sc, zdiv) = None THEN None
    ELSE Some([index |-> d.index, weights |-> NormalizedWeights(sc, zdiv)[1]])

ensemble_predict(d, sf, fit, on, sc, zdiv) ==
    IF ~PredictReady(d, sf, fit, on) THEN None ELSE WeightedSeries(d, sc, zdiv)

(********************* TrendPredictor.train / predict **********************)
\* what the environment does to one call of train: nothing, or a joblib.dump
\* that raises
TrendFaults == {<<"none">>, <<"dump", "trend_predictor">>, <<"dump", "scaler">>}

\* lines 77-92: how far the body of train gets. prepare_features returned
\* None ("TypeError" on features[target_col]); the target is no column
\* ("KeyError"); no row is left under the mask ("scaler": fit_transform on no
\* sample); one row is left ("fit": the early-stopping split of the boosting
\* model, validation_fraction=0.2, leaves no training sample); else "fitted".
\* The imputed table holds no NaN, so the mask keeps the rows 1..n-h.
TrendStage(d, target, h) ==
    LET f == prepare_features(d)
    IN  IF f.raises THEN "TypeError"
        ELSE IF <<target>> \notin Range(f.columns) THEN "KeyError"
        ELSE IF NRows(d) - h < 1 THEN "scaler"
        ELSE IF NRows(d) - h < 2 THEN "fit"
        ELSE "fitted"

\* TrendPredictor.train(data, target_col, forecast_days): the value returned,
\* what the body raised, the object afterwards and the files written
trend_train(d, target, h, fault, tr, t) ==
    LET f == prepare_features(d)
        stage == TrendStage(d, target, h)
        cols == DropColumn(f.columns, <<target>>)
        ok == stage = "fitted" /\ fault = <<"none">>
    IN  [ret |-> ok,
         raised |-> IF stage # "fitted" THEN <<stage>> ELSE fault,
         trend |-> [imputer_fitted |-> tr.imputer_fitted \/ f.imputed,
                    scaler |-> IF stage \in {"fit", "fitted"} THEN Some(cols) ELSE tr.scaler,
                    model |-> IF stage = "fitted" THEN Some(cols) ELSE tr.model,
                    trained_on |-> IF ok THEN Some(d.columns) ELSE tr.trained_on],
         files |-> IF stage # "fitted" \/ fault = <<"dump", "trend_predictor">> THEN {}
                   ELSE {ModelFile("trend_predictor", t)}
                        \cup (IF fault = <<"none">> THEN {ScalerFile(t)} ELSE {})]

\* TrendPredictor.predict(data): the features handed to scaler.transform are
\* the whole table prepare_features returns, target column included
trend_predict(d, tr) ==
    LET f == prepare_features(d)
        raised == IF f.raises THEN <<"TypeError">>
                  ELSE IF tr.scaler = None THEN <<"NotFittedError">>
                  ELSE IF tr.scaler # Some(f.columns) \/ NRows(d) = 0 THEN <<"ValueError">>
                  ELSE IF tr.model = None THEN <<"NotFittedError">>
                  ELSE <<"none">>
    IN  [ret |-> IF raised = <<"none">> THEN Some([index |-> d.index]) ELSE None,
         raised |-> raised,
         trend |-> [tr EXCEPT !.imputer_fitted = @ \/ f.imputed]]

(************************* the models directory ****************************)
(* AdvancedPredictor, TrendPredictor and ModelTrainer all write to the     *)
(* directory 'models'; ModelAPI reads it. A file is a record               *)
(*   [name, run, kind, whole]                                              *)
(* name  : <<stem, ts>>, the file name stem and the minute stamped into    *)
(*         the name (NoStamp for scaler.joblib and feature_names.joblib)   *)
(* run   : the training run that wrote the content                         *)
(* kind  : what was pickled: "model", "scaler" or "names"                  *)
(* whole : FALSE while joblib.dump has opened the file and not closed it   *)
NoStamp == 0 - 1

\* the stems in the order sorted() puts the names: byte order of the
\* strings, where 'f' < 'g' < 'l' < 'n' < 'r' < 's' < 't' and
\* "scaler.joblib" < "scaler_<stamp>.joblib" because '.' < '_'
Stems == <<"feature_names", "gbm_model", "lasso_model", "nn_model", "rf_model", "scaler",
           "trend_predictor">>
StemRank(st) == CHOOSE k \in 1..Len(Stems) : Stems[k] = st

\* a < b as file names; the stamp %Y%m%d_%H%M has a fixed width, so the
\* names of one stem sort by minute
NameLess(a, b) ==
    \/ StemRank(a[1]) < StemRank(b[1])
    \/ a[1] = b[1] /\ a[2] < b[2]

\* open(path, 'wb'): a file of that name is replaced
WriteFile(fs, f) == {g \in fs : g.name # f.name} \cup {f}

\* the dumps of one run, in program order: <<stem, kind, stamp>>, where stamp
\* says how the name gets its minute: "now" reads the clock for this dump,
\* "last" reuses the run's timestamp variable, "none" is a fixed name
Dumps(who) ==
    IF who = "advanced"
    THEN [k \in 1..Len(Members) |-> <<Members[k] \o "_model", "model", "now">>]
         \o << <<"scaler", "scaler", "last">> >>
    ELSE IF who = "trend"
    THEN << <<"trend_predictor", "model", "now">>, <<"scaler", "scaler", "last">> >>
    ELSE << <<"rf_model", "model", "now">>, <<"gbm_model", "model", "now">>,
            <<"scaler", "scaler", "none">>, <<"feature_names", "names", "none">> >>

Writers == {"advanced", "trend", "trainer"}

\* the file the run in progress writes at its current step
DumpName(w, t) ==
    LET dp == Dumps(w.who)[w.step]
    IN  <<dp[1], IF dp[3] = "now" THEN Timestamp(t)
                 ELSE IF dp[3] = "last" THEN w.ts ELSE NoStamp>>

\* sorted(model_files)[-1]
LatestName(fs) ==
    CHOOSE a \in {f.name : f \in fs} : \A b \in {f.name : f \in fs} : b = a \/ NameLess(b, a)

FileAt(fs, nm) == CHOOSE f \in fs : f.name = nm

\* joblib.load(path): raises if the file is missing or cut short
CanLoad(fs, nm) == \E f \in fs : f.name = nm /\ f.whole

\* ModelAPI.load_latest_model
load_latest_model(fs) ==
    IF fs = {} THEN [loaded |-> TRUE, selected |-> None, model |-> None, scaler |-> None]
    ELSE LET latest == LatestName(fs)
         IN  IF CanLoad(fs, latest) /\ CanLoad(fs, <<"scaler", NoStamp>>)
             THEN [loaded |-> TRUE, selected |-> Some(latest),
                   model |-> Some(FileAt(fs, latest)),
                   scaler |-> Some(FileAt(fs, <<"scaler", NoStamp>>))]
             ELSE [loaded |-> TRUE, selected |-> Some(latest), model |-> None,
                   scaler |-> None]

\* the /predict route: a fixed answer, whatever was loaded
predict(a) == [status |-> 200, prediction |-> 75, confidence |-> 85]

(************************* DataQualityChecker ******************************)
(* The checker reads the directories data/raw, data/processed and          *)
(* data/analysis. A source file is a record [source, dir, kind, day]:      *)
(* source : the source name its file name contains                         *)
(* dir    : "analysis", "processed" or "raw"                               *)
(* kind   : "dir"  - the entry <source> itself (the subdirectory           *)
(*                   data/raw/<source>, which os.listdir returns),         *)
(*          "data" - <source>_data_<YYYYMMDD>_<HHMM>.csv,                  *)
(*          "scraped" - scraped_<source>_<YYYYMMDD>_<HHMM>.csv             *)
(* day    : the date in the name, None if the name holds none              *)
(* A combined file combined_data_<YYYYMMDD>_<HHMM>.csv is a record         *)
(* [name, content], name = <<day, minute>>; its content is what read_csv   *)
(* makes of it: [readable, date_col, dated, dates, columns, col].          *)
SourceNames == <<"reddit", "news", "market">>
DirNames == <<"analysis", "processed", "raw">>
KindNames == <<"dir", "data", "scraped">>
RankIn(seq, x) == CHOOSE k \in 1..Len(seq) : seq[k] = x
DayOrNoStamp(f) == IF f.day = None THEN 0 - 1 ELSE f.day[1]

\* a < b as path strings: 'data/analysis' < 'data/processed' < 'data/raw',
\* then by file name, '<source>' < '<source>_data_...' < 'scraped_<source>_...',
\* then by the fixed-width date
PathLess(a, b) ==
    \/ RankIn(DirNames, a.dir) < RankIn(DirNames, b.dir)
    \/ /\ a.dir = b.dir
       /\ \/ RankIn(KindNames, a.kind) < RankIn(KindNames, b.kind)
          \/ a.kind = b.kind /\ DayOrNoStamp(a) < DayOrNoStamp(b)

\* find_data_files(source_type): the entries of raw and processed whose name
\* contains the source, and the .csv files under analysis that do
find_data_files(fs, src) ==
    {f \in fs : f.source = src /\ (f.dir = "analysis" => f.kind # "dir")}

\* sorted(data_files)[-1]
LastPath(S) == CHOOSE f \in S : \A g \in S : g = f \/ PathLess(g, f)

\* extract_date_from_path: the first 8-digit part of the name, else None
extract_date_from_path(f) == f.day

\* (datetime.now() - file_date).days
DaysOld(t, day) == (t - day * SecondsPerDay) \div SecondsPerDay

NoFreshness == [latest_file |-> None, days_old |-> None, is_fresh |-> FALSE]

\* check_data_freshness
check_data_freshness(fs, t) ==
    [src \in Range(SourceNames) |->
        LET found == find_data_files(fs, src)
        IN  IF found = {} THEN NoFreshness
            ELSE LET latest_file == LastPath(found)
                     file_date == extract_date_from_path(latest_file)
                 IN  IF file_date = None THEN NoFreshness
                     ELSE [latest_file |-> Some(latest_file),
                           days_old |-> Some(DaysOld(t, file_date[1])),
                           is_fresh |-> DaysOld(t, file_date[1]) <= FreshDays]]

\* a < b as names combined_data_<YYYYMMDD>_<HHMM>.csv
NameBefore(a, b) == a[1] < b[1] \/ (a[1] = b[1] /\ a[2] < b[2])

\* sorted(combined_files)[-1]
LatestCombined(cs) == CHOOSE f \in cs : \A g \in cs : g = f \/ NameBefore(g.name, f.name)

\* date_col = 'date' if 'date' in data.columns else 'Unnamed: 0'
HasDateCol(c) == c.date_col \in {"date", "Unnamed: 0"}

\* the non-null cells of a column
DropNa(s) == SelectSeq(s, LAMBDA v : ~IsNaN(v))
Values(s) == [k \in 1..Len(s) |-> s[k][1]]

\* non_null_data.min() >= -1 if 'sentiment' in col else True, and the same
\* for max() <= 1 (cells are in tenths)
IsSentiment(c) == c \in {"reddit_sentiment", "news_sentiment"}
WithinRange_m(c, vals) == IsSentiment(c) => MaxSeq(vals) <= SentimentMax
WithinRange(c, vals) ==
    IsSentiment(c) => (MinSeq(vals) >= 0 - SentimentMax /\ MaxSeq(vals) <= SentimentMax)

\* pd.date_range(start=min, end=max).difference(dates), in increasing order
date_range_m(a, b) == [k \in 1..(b - a + 1) |-> a + k]
date_range(a, b) == [k \in 1..(b - a + 1) |-> a + k - 1]
DateGaps(dates) ==
    SelectSeq(date_range(MinSeq(dates), MaxSeq(dates)), LAMBDA d : d \notin Range(dates))

\* what the body of check_data_consistency raises: read_csv on a file
\* without content, to_datetime on labels that are no dates, date_range on
\* the NaT bounds of a table without rows
ConsistencyRaises(c) ==
    IF ~c.readable THEN <<"EmptyDataError">>
    ELSE IF ~HasDateCol(c) THEN NoError
    ELSE IF ~c.dated THEN <<"to_datetime">>
    ELSE IF Len(c.dates) = 0 THEN <<"date_range">>
    ELSE NoError

\* check_data_consistency
check_data_consistency(cs) ==
    IF cs = {} THEN None
    ELSE LET c == LatestCombined(cs).content
         IN  IF ConsistencyRaises(c) # NoError \/ ~HasDateCol(c) THEN None
             ELSE LET gaps == DateGaps(c.dates)
                      ranged == {k \in Range(c.columns) : Len(DropNa(c.col[k])) > 0}
                  IN  Some([missing_dates |-> Len(gaps),
                            date_gaps |-> gaps,
                            value_ranges |->
                               [k \in ranged |->
                                  LET vals == Values(DropNa(c.col[k]))
                                  IN  [min |-> MinSeq(vals), max |-> MaxSeq(vals),
                                       within_range |-> WithinRange(k, vals)]]])

\* analyze_sentiment_distribution: per sentiment column the mean (sum and
\* count of the non-null cells), the cells the deviation is taken of, the
\* number of missing cells and of rows
analyze_sentiment_distribution(cs) ==
    IF cs = {} THEN None
    ELSE LET c == LatestCombined(cs).content
         IN  IF ~c.readable THEN None
             ELSE Some([k \in {x \in Range(c.columns) : IsSentiment(x)} |->
                          LET vals == Values(DropNa(c.col[k]))
                          IN  [mean |-> IF Len(vals) > 0 THEN Some(<<SumSeq(vals), Len(vals)>>)
                                        ELSE None,
                               std |-> IF Len(vals) > 0 THEN Some(vals) ELSE None,
                               missing |-> Len(c.col[k]) - Len(vals),
                               rows |-> Len(c.col[k])]])

\* max(combined_files, key=lambda f: f.split('_')[-1].replace('.csv', '')):
\* the key of combined_data_<YYYYMMDD>_<HHMM>.csv is <HHMM>; among files of
\* equal key max returns the first in os.listdir order, which is arbitrary
LatestByKey(cs) == {f \in cs : \A g \in cs : g.name[2] <= f.name[2]}

\* get_latest_data, when max picks the file f
get_latest_data(cs, f) ==
    IF cs = {} THEN None
    ELSE IF ~f.content.readable THEN None
    ELSE IF Len(f.content.dates) = 0 THEN None
    ELSE Some(f.content)

\* strftime("%Y%m%d_%H%M") of the instant t: <<day, minute of the day>>
StampOf(t) == <<t \div SecondsPerDay, (t % SecondsPerDay) \div SecondsPerMinute>>

\* generate_quality_report: the report, None if writing it raises
generate_quality_report(d, t, write_fails) ==
    LET orEmpty(x) == IF x = None THEN Some(<<>>) ELSE x
        report == [timestamp |-> t,
                   freshness |-> check_data_freshness(d.sources, t),
                   sentiment_stats |-> orEmpty(analyze_sentiment_distribution(d.combined))[1],
                   consistency |-> orEmpty(check_data_consistency(d.combined))[1]]
    IN  [ret |-> IF write_fails THEN None ELSE Some(report),
         raised |-> IF write_fails THEN <<"OSError">> ELSE NoError,
         reports |-> IF write_fails THEN d.reports ELSE d.reports \cup {StampOf(t)}]

\* combined_data.to_csv(path) and read_csv of it: the index becomes the
\* unnamed first column
CsvOf(d) ==
    [readable |-> TRUE, date_col |-> "Unnamed: 0", dated |-> d.dated, dates |-> d.index,
     columns |-> d.columns, col |-> d.col]

\* open(path, 'w'): a file of that name is replaced
WriteCombined(cs, nm, content) ==
    {g \in cs : g.name # nm} \cup {[name |-> nm, content |-> content]}

(*********************** DataPipeline.combine_data *************************)
(* processed_data after process_data and analyze_sentiment: per source     *)
(* either nothing or the dates of its rows, in row order. A date is a day  *)
(* number or NaT; `aligned` says that the timestamps of the rows are the   *)
(* midnights the daily index holds (else no key of the grouped series      *)
(* matches an index entry).                                                *)
NaT == 0 - 1
DateSources == <<"reddit", "news", "market">>
SignalOf(src) == IF src = "market" THEN "market_change" ELSE src \o "_sentiment"

\* lines 117-123: the dates of reddit, news and market, in that order; the
\* ecommerce frame is not read
AllDates_m(p) ==
    Concat([k \in 1..2 |-> IF p[DateSources[k]] = None THEN <<>>
                           ELSE p[DateSources[k]][1].days])
AllDates(p) ==
    Concat([k \in 1..Len(DateSources) |-> IF p[DateSources[k]] = None THEN <<>>
                                          ELSE p[DateSources[k]][1].days])

\* min(all_dates) and max(all_dates) as Python computes them: the first
\* element, replaced by each later one that compares smaller (greater); a
\* comparison with NaT is False
RECURSIVE PyMin(_, _)
PyMin(s, k) ==
    IF k = 1 THEN s[1]
    ELSE LET m == PyMin(s, k - 1)
         IN  IF s[k] # NaT /\ m # NaT /\ s[k] < m THEN s[k] ELSE m
RECURSIVE PyMax(_, _)
PyMax(s, k) ==
    IF k = 1 THEN s[1]
    ELSE LET m == PyMax(s, k - 1)
         IN  IF s[k] # NaT /\ m # NaT /\ s[k] > m THEN s[k] ELSE m

\* what the try body raises: comparing NaT with a date (nat_raises: the
\* installed pandas refuses the comparison), or date_range from or to NaT
CombineRaises(p, nat_raises) ==
    LET all == AllDates(p)
    IN  IF all = <<>> THEN NoError
        ELSE IF nat_raises /\ NaT \in Range(all) /\ Len(all) > 1 THEN <<"TypeError">>
        ELSE IF PyMin(all, Len(all)) = NaT \/ PyMax(all, Len(all)) = NaT
             THEN <<"ValueError">>
        ELSE NoError

\* lines 133-144 and 147: the column of a source over the index: the daily
\* mean where a key of the grouped series equals the index entry, then
\* forward and backward filled
SignalColumn(src, index) ==
    LET hit(d) == src.aligned /\ d \in Range(src.days)
        any == \E i \in DOMAIN index : hit(index[i])
    IN  [i \in DOMAIN index |-> IF any THEN Num(src.value) ELSE NaN]

combine_data(p, nat_raises) ==
    LET all == AllDates(p)
        present == SelectSeq(DateSources, LAMBDA x : p[x] # None)
    IN  IF all = <<>> \/ CombineRaises(p, nat_raises) # NoError
        THEN EmptyFrame
        ELSE LET dates == date_range(PyMin(all, Len(all)), PyMax(all, Len(all)))
             IN  [index |-> dates,
                  columns |-> [k \in 1..Len(present) |-> SignalOf(present[k])],
                  col |-> [c \in {SignalOf(present[k]) : k \in 1..Len(present)} |->
                             LET x == CHOOSE y \in Range(present) : SignalOf(y) = c
                             IN  SignalColumn(p[x][1], dates)],
                  dated |-> TRUE]

(************************** routes.refresh **********************************)
(* A token is <<user_id, type, exp>>: HS256 over a fixed key is a function *)
(* of the payload, and exp is written in whole seconds. The refresh_tokens *)
(* table is a sequence of rows [token, user_id, expires_at]; whether its   *)
(* token column is unique is not in the sources read (auth.unique).        *)
encode(user_id, type, exp) == <<user_id, type, exp>>
Forged == <<0, "forged", 0>>

\* jwt.decode(token, key, algorithms=['HS256']): InvalidTokenError on a bad
\* signature and on an exp that has passed
DecodeRaises(token, t) == token = Forged \/ token[3] <= t

Stored(rows, token) == \E i \in DOMAIN rows : rows[i].token = token
FirstRow(rows, token) ==
    CHOOSE i \in DOMAIN rows : rows[i].token = token /\ \A j \in 1..(i - 1) : rows[j].token # token

\* generate_tokens(user_id): both tokens encoded, the refresh token added to
\* the table and committed; the commit raises on a duplicate of a unique token
generate_tokens(user_id, a, t) ==
    LET refresh_token == encode(user_id, "refresh", t + REFRESH_TOKEN_EXPIRES)
        row == [token |-> refresh_token, user_id |-> user_id,
                expires_at |-> t + REFRESH_TOKEN_EXPIRES]
        dup == a.unique /\ Stored(a.tokens, refresh_token)
    IN  [raised |-> IF dup THEN <<"IntegrityError">> ELSE NoError,
         access_token |-> encode(user_id, "access", t + ACCESS_TOKEN_EXPIRES),
         refresh_token |-> refresh_token,
         tokens |-> IF dup THEN a.tokens ELSE Append(a.tokens, row)]

\* revoke_token(token): the first row holding the token is deleted
revoke_token(rows, token) ==
    IF ~Stored(rows, token) THEN rows
    ELSE LET i == FirstRow(rows, token)
         IN  SubSeq(rows, 1, i - 1) \o SubSeq(rows, i + 1, Len(rows))

\* refresh(), lines 75-110: the reply and the table after the request.
\* Only jwt.InvalidTokenError is caught: a commit that raises ends in the
\* application's 500 handler.
Reply(status, presented, access, new, a, t) ==
    [status |-> status, presented |-> presented, access_token |-> access,
     refresh_token |-> new,
     replayed |-> presented # None /\ presented[1] \in a.rotated,
     live |-> /\ presented # None
              /\ ~DecodeRaises(presented[1], t)
              /\ Stored(a.tokens, presented[1])
              /\ presented[1] \notin a.rotated]
refresh(presented, a, t) ==
    LET rejected == [reply |-> Reply(401, presented, None, None, a, t), auth |-> a]
    IN  IF presented = None THEN rejected
        ELSE LET token == presented[1]
             IN  IF DecodeRaises(token, t) THEN rejected
                 ELSE IF ~(\E i \in DOMAIN a.tokens :
                              /\ a.tokens[i].token = token
                              /\ a.tokens[i].user_id = token[1])
                         \/ a.tokens[FirstRow(a.tokens, token)].expires_at < t
                      THEN rejected
                 ELSE LET g == generate_tokens(token[1], a, t)
                      IN  IF g.raised # NoError
                          THEN [reply |-> Reply(500, presented, None, None, a, t), auth |-> a]
                          ELSE [reply |-> Reply(200, presented, Some(g.access_token),
                                                Some(g.refresh_token), a, t),
                                auth |-> [a EXCEPT !.tokens = revoke_token(g.tokens, token),
                                                   !.issued = @ \cup {g.refresh_token},
                                                   !.rotated = @ \cup {token}]]

(************************** input tables ***********************************)
ColumnSets ==
    {<<>>, <<"market_change">>, <<"reddit_sentiment", "news_sentiment", "market_change">>,
     <<"reddit_sentiment", "news_sentiment">>}

\* cell of column c at row i, in tenths: "const" is the flat series (market
\* change 0.0, sentiment 0.1), "zigzag" alternates
PatternCell(c, pat, i) ==
    IF pat = "const" THEN (IF c = "market_change" THEN 0 ELSE 1)
    ELSE (IF c = "market_change" THEN i % 2 ELSE 1 + (i % 2))

\* n daily rows; column c is missing on rows lo[c]..hi[c]
MkTable(n, cols, pat, lo, hi, dated) ==
    [index |-> [i \in 1..n |-> i],
     columns |-> cols,
     col |-> [c \in Range(cols) |->
                [i \in 1..n |-> IF lo[c] <= i /\ i <= hi[c] THEN NaN
                                ELSE Num(PatternCell(c, pat, i))]],
     dated |-> dated]

Const(cols, x) == [c \in Range(cols) |-> x]

\* tables for the gate: up to two columns, each missing on a prefix of rows
GateColumnSets == {<<>>, <<"market_change">>, <<"reddit_sentiment", "market_change">>}
GateTables ==
    {EmptyFrame}
    \cup UNION {{MkTable(nc[1], nc[2], "zigzag", Const(nc[2], 1), hi, TRUE) :
                    hi \in [Range(nc[2]) -> 0..nc[1]]} :
                 nc \in (1..MaxGateRows) \X GateColumnSets}
    \cup {MkTable(n, <<"market_change">>, "zigzag", Const(<<"market_change">>, 1),
                  Const(<<"market_change">>, 0), FALSE) : n \in 1..MaxGateRows}

\* tables for training: nothing missing, all rows missing, or row 7 missing
Gaps == {<<1, 0>>, <<1, MaxRows>>, <<MinRows, MinRows>>}
SmallTables ==
    {MkTable(n, cols, "zigzag", Const(cols, g[1]), Const(cols, g[2]), TRUE) :
        n \in 1..MaxRows, cols \in ColumnSets, g \in Gaps}
    \cup {MkTable(n, <<"market_change">>, "zigzag", Const(<<"market_change">>, 1),
                  Const(<<"market_change">>, 0), FALSE) : n \in 1..MaxRows}

\* horizons tried: the default and long ones
LongHorizons == {LongHorizon + 3 * k : k \in 0..HorizonSteps}
Horizons == {DefaultForecastDays} \cup LongHorizons

\* 2h rows whose data is missing on rows h+1..h+14
GapTables ==
    {MkTable(2 * h, cols, "zigzag", Const(cols, h + 1), Const(cols, h + 14), TRUE) :
        h \in LongHorizons, cols \in {c \in ColumnSets : "market_change" \in Range(c)}}

\* 60 daily rows, market_change 0.0, sentiments 0.1
ScenarioTable ==
    LET cols == <<"reddit_sentiment", "news_sentiment", "market_change">>
    IN  MkTable(60, cols, "const", Const(cols, 1), Const(cols, 0), TRUE)

TrainTables == {EmptyFrame} \cup SmallTables \cup GapTables \cup {ScenarioTable}

\* every short market_change series over the cells NaN, 0.0, 0.1, 0.2
FreeCells == {NaN, Num(0), Num(1), Num(2)}
FreeTables ==
    UNION {{[index |-> [i \in 1..n |-> i], columns |-> <<"market_change">>,
             col |-> [c \in {"market_change"} |-> s], dated |-> TRUE] :
               s \in [1..n -> FreeCells]} : n \in 1..MaxFreeRows}

FeatureTables == SmallTables \cup FreeTables

\* the files the checker may find: for two sources, an entry of each kind
\* in each directory, dated day 1 or day 3 (a directory entry has no date)
FileDays == {1, 3}
SourceFiles ==
    {[source |-> sd[1], dir |-> sd[2], kind |-> "dir", day |-> None] :
        sd \in {"reddit", "news"} \X {"processed", "raw"}}
    \cup {[source |-> x[1], dir |-> x[2], kind |-> x[3], day |-> Some(x[4])] :
            x \in {"reddit", "news"} \X Range(DirNames) \X {"data", "scraped"} \X FileDays}

\* contents of combined files: one or two signal columns over a few date
\* lists (none, one, consecutive, repeated with a gap, unsorted with a gap);
\* the first cell is missing, 5.0, -2.0 or 1.0 and the others are 0.5
CsvDates == {<<>>, <<2>>, <<1, 2, 3>>, <<1, 1, 4>>, <<4, 2>>}
CsvFirstCells == {NaN, Num(50), Num(0 - 20), Num(10)}
CsvColumns == {<<"reddit_sentiment">>, <<"news_sentiment", "market_change">>}
MkCsv(dates, cols, first) ==
    [readable |-> TRUE,
     date_col |-> IF Len(cols) = 1 THEN "Unnamed: 0" ELSE "date",
     dated |-> TRUE, dates |-> dates, columns |-> cols,
     col |-> [c \in Range(cols) |-> [i \in 1..Len(dates) |-> IF i = 1 THEN first ELSE Num(5)]]]
CsvContents ==
    {MkCsv(x[1], x[2], x[3]) : x \in CsvDates \X CsvColumns \X CsvFirstCells}
    \cup {[MkCsv(<<1, 2>>, <<"reddit_sentiment">>, Num(50)) EXCEPT !.readable = FALSE],
          [MkCsv(<<1, 2>>, <<"reddit_sentiment">>, Num(50)) EXCEPT !.date_col = "none"],
          [MkCsv(<<1, 2>>, <<"reddit_sentiment">>, Num(50)) EXCEPT !.dated = FALSE]}

\* names combined_data_<day>_<minute>: 08:00 and 23:59 of day 1, 08:00 of day 2
CsvNames == {<<1, 480>>, <<1, 1439>>, <<2, 480>>}
CombinedFiles == {[name |-> x[1], content |-> x[2]] : x \in CsvNames \X CsvContents}

\* the directories with at most two files in them
MkDisk(S, C) == [sources |-> S, combined |-> C, reports |-> {}]
Disks ==
    {MkDisk({}, {})}
    \cup {MkDisk({x[1], x[2]}, {}) : x \in SourceFiles \X SourceFiles}
    \cup {MkDisk({x[1]}, {x[2]}) : x \in SourceFiles \X CombinedFiles}
    \cup {MkDisk({}, {x[1], x[2]}) :
            x \in {y \in CombinedFiles \X CombinedFiles :
                      y[1] = y[2] \/ y[1].name # y[2].name}}

\* processed_data: row dates per source (one row, two days apart in either
\* order, a repeated day, a NaT first or last), the market rows always at
\* midnight, an ecommerce frame of one row inside or after the other dates
RowDays == {<<2>>, <<1, 3>>, <<4, 2>>, <<2, 2>>, <<NaT, 2>>, <<3, NaT>>}
SourceRows(flags, v) ==
    {None} \cup {Some([days |-> x[1], aligned |-> x[2], value |-> v]) : x \in RowDays \X flags}
ProcessedInputs ==
    {[reddit |-> x[1], news |-> x[2], market |-> x[3], ecommerce |-> x[4]] :
        x \in SourceRows(BOOLEAN, 1) \X SourceRows(BOOLEAN, 1) \X SourceRows({TRUE}, 0)
              \X {None, Some([days |-> <<2>>, aligned |-> TRUE, value |-> 0]),
                  Some([days |-> <<5>>, aligned |-> TRUE, value |-> 0])}}

\* what combine_data can return: the empty frame, or a dated daily table whose
\* columns were forward- and backward-filled (no NaN left unless all are NaN)
IsCombined(d) ==
    \/ d = EmptyFrame
    \/ /\ d.dated
       /\ \A c \in Range(d.columns) : MissingCount(d.col[c]) \in {0, NRows(d)}

CombinedTables == {d \in {EmptyFrame} \cup SmallTables : IsCombined(d)}

LatestDay(d) == IF NRows(d) = 0 THEN 0 ELSE MaxSeq(d.index)

NoTrain ==
    [ret |-> None, raised |-> <<"not called">>, target |-> "", h |-> 0, X_rows |-> <<>>,
     y |-> <<>>, folds |-> <<>>, computed |-> {}, written |-> {}, fit_inputs |-> <<>>,
     X_scaled |-> <<>>]
NoPipeline == [train_invoked |-> FALSE, ret |-> None]
NoScores == [m \in Range(Members) |-> 0]
NotFitted == [m \in Range(Members) |-> None]

\* TrendPredictor.__init__: nothing fitted, no feature table built yet
NoTrend == [imputer_fitted |-> FALSE, scaler |-> None, model |-> None, trained_on |-> None]
InitFeatures ==
    /\ features_log = <<>>
    /\ trend = NoTrend

\* an empty models directory, no run in progress, the API not constructed
NoWriter == [who |-> "idle", run |-> 0, step |-> 0, open |-> FALSE, ts |-> NoStamp]
NoApi == [loaded |-> FALSE, selected |-> None, model |-> None, scaler |-> None]
InitDir ==
    /\ files = {}
    /\ writer = NoWriter
    /\ api = NoApi
    /\ response = None
    /\ runs = <<>>

\* no data file, no report, nothing combined, no token issued
NoDisk == [sources |-> {}, combined |-> {}, reports |-> {}]
NoAuth == [tokens |-> <<>>, unique |-> FALSE, issued |-> {}, rotated |-> {}]
InitExt ==
    /\ outcome = NoOutcome
    /\ disk = NoDisk
    /\ quality = None
    /\ processed = None
    /\ combined = None
    /\ auth = NoAuth
    /\ reply = None

InitTables(T, L) ==
    /\ data \in T
    /\ \E late \in 0..L :
          now = (LatestDay(data) + MaxAgeDays) * SecondsPerDay + late
    /\ op = "init"
    /\ validation = None
    /\ train = NoTrain
    /\ model_scores = None
    /\ models_dir = {}
    /\ scaler_fitted = None
    /\ fitted = {}
    /\ prediction = None
    /\ pipeline = NoPipeline
    /\ r2 = NoScores
    /\ weights = None
    /\ fitted_on = NotFitted
    /\ InitFeatures
    /\ InitDir

InitWith(T, L) == InitTables(T, L) /\ InitExt

(****************************** actions ************************************)
\* the call as the object and the caller see it; X_scaled exists once line 120
\* has returned
TrainFields(r, d) ==
    [ret |-> r.ret, raised |-> r.raised, target |-> r.target, h |-> r.h, X_rows |-> r.X_rows,
     y |-> r.y, folds |-> r.folds, computed |-> r.computed, written |-> r.written,
     fit_inputs |-> r.fit_inputs,
     X_scaled |-> IF r.raised \in {<<"features">>, <<"KeyError">>, <<"scaler">>} THEN <<>>
                  ELSE ScaledRaw(d, r.target, r.X_rows)]

\* validator.check_data_quality(data)
CheckDataQuality ==
    /\ op' = "check_data_quality"
    /\ validation' = Some(check_data_quality(data, now))
    /\ outcome' = Handled("check_data_quality",
                          IF GateRaises(data) THEN <<"to_datetime">> ELSE NoError,
                          validation')
    /\ UNCHANGED <<now, data, train, model_scores, models_dir, scaler_fitted, fitted,
                   prediction, pipeline, r2, weights, fitted_on, featvars, dirvars, extvars>>

\* predictor.train_models(data, 'market_change', h)
TrainModels(h) ==
    \E p \in {Prepare(data, "market_change", h)} :
        \E fault \in FaultsAt(p) :
          \E r \in {Finish(p, "market_change", h, fault, now, scaler_fitted, fitted)} :
              /\ op' = "train_models"
              /\ train' = TrainFields(r, data)
              /\ model_scores' = r.ret
              /\ models_dir' = models_dir \cup r.files
              /\ scaler_fitted' = r.scaler_fitted
              /\ fitted' = r.fitted
              /\ fitted_on' = FittedOn(fitted_on, r.refit, p.fs)
              /\ outcome' = Handled("train_models", r.raised, r.ret)
              /\ UNCHANGED <<now, data, validation, prediction, pipeline, r2, weights,
                             featvars, dirvars, extvars>>

\* predictor.ensemble_predict(data)
EnsemblePredict ==
    /\ op' = "ensemble_predict"
    /\ IF PredictReady(data, scaler_fitted, fitted, fitted_on)
       THEN \E sc \in Scores, zdiv \in BOOLEAN :
               /\ r2' = sc
               /\ weights' = NormalizedWeights(sc, zdiv)
               /\ prediction' = WeightedSeries(data, sc, zdiv)
               /\ outcome' = Handled("ensemble_predict",
                                     IF weights' = None THEN <<"ZeroDivisionError">>
                                     ELSE NoError,
                                     prediction')
       ELSE /\ prediction' = None
            /\ outcome' = Handled("ensemble_predict", <<"predict">>, None)
            /\ UNCHANGED <<r2, weights>>
    /\ UNCHANGED <<now, data, validation, train, model_scores, models_dir, scaler_fitted,
                   fitted, pipeline, fitted_on, featvars, dirvars, extvars>>

\* DataPipeline.run_pipeline from the combined table on: validate, draw the
\* figures (an unguarded plotting call may raise: viz_raises; the heatmap of
\* an empty correlation matrix always does), train with the default horizon,
\* predict if training returned scores
RunPipeline(viz_raises) ==
    /\ IsCombined(data)
    /\ Empty(data) => viz_raises
    /\ op' = "run_pipeline"
    /\ validation' = Some(check_data_quality(data, now))
    /\ IF viz_raises
       THEN /\ pipeline' = [train_invoked |-> FALSE, ret |-> None]
            /\ UNCHANGED <<train, model_scores, models_dir, scaler_fitted, fitted,
                           prediction, r2, weights, fitted_on>>
       ELSE \E p \in {Prepare(data, "market_change", DefaultForecastDays)} :
                \E fault \in FaultsAt(p) :
                  \E r \in {Finish(p, "market_change", DefaultForecastDays, fault, now,
                                  scaler_fitted, fitted)} :
                      /\ pipeline' = [train_invoked |-> TRUE, ret |-> Some(data)]
                      /\ train' = TrainFields(r, data)
                      /\ model_scores' = r.ret
                      /\ models_dir' = models_dir \cup r.files
                      /\ scaler_fitted' = r.scaler_fitted
                      /\ fitted' = r.fitted
                      /\ fitted_on' = FittedOn(fitted_on, r.refit, p.fs)
                      /\ IF r.ret # None
                            /\ PredictReady(data, r.scaler_fitted, r.fitted, fitted_on')
                         THEN \E sc \in Scores, zdiv \in BOOLEAN :
                                 /\ r2' = sc
                                 /\ weights' = NormalizedWeights(sc, zdiv)
                                 /\ prediction' = ensemble_predict(data, r.scaler_fitted,
                                                                   r.fitted, fitted_on',
                                                                   sc, zdiv)
                         ELSE /\ prediction' = IF r.ret # None THEN None ELSE prediction
                              /\ UNCHANGED <<r2, weights>>
    /\ outcome' = Handled("run_pipeline", IF viz_raises THEN <<"plot">> ELSE NoError,
                          pipeline'.ret)
    /\ disk' = [disk EXCEPT !.combined = WriteCombined(@, StampOf(now), CsvOf(data))]
    /\ UNCHANGED <<now, data, featvars, dirvars, quality, processed, combined, auth, reply>>

\* lines 186-190 on their own: the weights of a set of member scores
NormalizeWeights ==
    /\ op = "init"
    /\ \E zdiv \in BOOLEAN :
          /\ weights' = NormalizedWeights(r2, zdiv)
          /\ op' = IF zdiv THEN "weights (Python floats)" ELSE "weights (numpy floats)"
    /\ UNCHANGED <<outcome, extvars, now, data, validation, train, model_scores, models_dir, scaler_fitted,
                   fitted, prediction, pipeline, r2, fitted_on, featvars, dirvars>>

\* predictor.create_advanced_features(data)
CreateFeatures ==
    /\ Len(features_log) < MaxCalls
    /\ features_log' = Append(features_log,
                              [who |-> "advanced", trained |-> scaler_fitted # None,
                               table |-> create_advanced_features(data)])
    /\ op' = "create_advanced_features"
    /\ UNCHANGED <<outcome, extvars, now, data, validation, train, model_scores, models_dir, scaler_fitted,
                   fitted, prediction, pipeline, r2, weights, fitted_on, trend, dirvars>>

\* TrendPredictor.prepare_features(data)
PrepareFeatures ==
    /\ Len(features_log) < MaxCalls
    /\ features_log' = Append(features_log,
                              [who |-> "trend", trained |-> trend.imputer_fitted,
                               table |-> prepare_features(data)])
    /\ trend' = [trend EXCEPT !.imputer_fitted = @ \/ prepare_features(data).imputed]
    /\ op' = "prepare_features"
    /\ UNCHANGED <<outcome, extvars, now, data, validation, train, model_scores, models_dir, scaler_fitted,
                   fitted, prediction, pipeline, r2, weights, fitted_on, dirvars>>

\* trend.train(data, 'market_change', h)
TrendTrain(h) ==
    \E fault \in (IF TrendStage(data, "market_change", h) = "fitted"
                  THEN TrendFaults ELSE {<<"none">>}) :
       \E r \in {trend_train(data, "market_change", h, fault, trend, now)} :
           /\ op' = "TrendPredictor.train"
           /\ trend' = r.trend
           /\ models_dir' = models_dir \cup r.files
           /\ outcome' = Handled("TrendPredictor.train", r.raised, Some(r.ret))
           /\ UNCHANGED <<extvars, now, data, validation, train, model_scores,
                          scaler_fitted, fitted, prediction, pipeline, r2, weights,
                          fitted_on, features_log, dirvars>>

\* trend.predict(data)
TrendPredict ==
    \E r \in {trend_predict(data, trend)} :
        /\ op' = "TrendPredictor.predict"
        /\ trend' = r.trend
        /\ outcome' = Handled("TrendPredictor.predict", r.raised, r.ret)
        /\ UNCHANGED <<extvars, now, data, validation, train, model_scores, models_dir,
                       scaler_fitted, fitted, prediction, pipeline, r2, weights,
                       fitted_on, features_log, dirvars>>

\* checker.check_data_freshness()
CheckDataFreshness ==
    /\ op' = "check_data_freshness"
    /\ quality' = Some(check_data_freshness(disk.sources, now))
    /\ outcome' = Handled("check_data_freshness", NoError,
                          Some(check_data_freshness(disk.sources, now)))
    /\ UNCHANGED <<now, data, validation, train, model_scores, models_dir, scaler_fitted,
                   fitted, prediction, pipeline, r2, weights, fitted_on, featvars, dirvars,
                   disk, processed, combined, auth, reply>>

\* checker.analyze_sentiment_distribution()
AnalyzeSentimentDistribution ==
    /\ op' = "analyze_sentiment_distribution"
    /\ quality' = analyze_sentiment_distribution(disk.combined)
    /\ outcome' = Handled("analyze_sentiment_distribution",
                          IF disk.combined # {} /\ ~LatestCombined(disk.combined).content.readable
                          THEN <<"EmptyDataError">> ELSE NoError,
                          analyze_sentiment_distribution(disk.combined))
    /\ UNCHANGED <<now, data, validation, train, model_scores, models_dir, scaler_fitted,
                   fitted, prediction, pipeline, r2, weights, fitted_on, featvars, dirvars,
                   disk, processed, combined, auth, reply>>

\* checker.check_data_consistency()
CheckDataConsistency ==
    /\ op' = "check_data_consistency"
    /\ quality' = check_data_consistency(disk.combined)
    /\ outcome' = Handled("check_data_consistency",
                          IF disk.combined = {} THEN NoError
                          ELSE ConsistencyRaises(LatestCombined(disk.combined).content),
                          check_data_consistency(disk.combined))
    /\ UNCHANGED <<now, data, validation, train, model_scores, models_dir, scaler_fitted,
                   fitted, prediction, pipeline, r2, weights, fitted_on, featvars, dirvars,
                   disk, processed, combined, auth, reply>>

\* checker.get_latest_data()
GetLatestData ==
    /\ op' = "get_latest_data"
    /\ IF disk.combined = {}
       THEN /\ quality' = None
            /\ outcome' = Handled("get_latest_data", NoError, None)
       ELSE \E f \in LatestByKey(disk.combined) :
               /\ quality' = get_latest_data(disk.combined, f)
               /\ outcome' = Handled("get_latest_data",
                                     IF f.content.readable THEN NoError
                                     ELSE <<"EmptyDataError">>,
                                     get_latest_data(disk.combined, f))
    /\ UNCHANGED <<now, data, validation, train, model_scores, models_dir, scaler_fitted,
                   fitted, prediction, pipeline, r2, weights, fitted_on, featvars, dirvars,
                   disk, processed, combined, auth, reply>>

\* checker.generate_quality_report()
GenerateQualityReport ==
    \E write_fails \in BOOLEAN :
       \E r \in {generate_quality_report(disk, now, write_fails)} :
           /\ op' = "generate_quality_report"
           /\ quality' = r.ret
           /\ disk' = [disk EXCEPT !.reports = r.reports]
           /\ outcome' = Handled("generate_quality_report", r.raised, r.ret)
           /\ UNCHANGED <<now, data, validation, train, model_scores, models_dir,
                          scaler_fitted, fitted, prediction, pipeline, r2, weights,
                          fitted_on, featvars, dirvars, processed, combined, auth, reply>>

\* pipeline.combine_data(processed_data)
CombineData ==
    /\ processed # None
    /\ \E nat_raises \in BOOLEAN :
          /\ combined' = Some(combine_data(processed[1], nat_raises))
          /\ outcome' = Handled("combine_data", CombineRaises(processed[1], nat_raises),
                                Some(combine_data(processed[1], nat_raises)))
    /\ op' = "combine_data"
    /\ UNCHANGED <<now, data, validation, train, model_scores, models_dir, scaler_fitted,
                   fitted, prediction, pipeline, r2, weights, fitted_on, featvars, dirvars,
                   disk, quality, processed, auth, reply>>

\* POST /auth/refresh with the body's refresh_token: none, a forged one, or
\* one issued before
Refresh ==
    \E presented \in {None, Some(Forged)} \cup {Some(x) : x \in auth.issued} :
       LET r == refresh(presented, auth, now)
       IN  /\ op' = "refresh"
           /\ reply' = Some(r.reply)
           /\ auth' = r.auth
           /\ outcome' = [name |-> "refresh",
                          raised |-> IF r.reply.status = 500 THEN <<"IntegrityError">>
                                     ELSE NoError,
                          escaped |-> r.reply.status = 500, ret |-> Some(r.reply.status)]
           /\ UNCHANGED <<now, data, validation, train, model_scores, models_dir,
                          scaler_fitted, fitted, prediction, pipeline, r2, weights,
                          fitted_on, featvars, dirvars, disk, quality, processed, combined>>

\* the clock between two requests: a second (up to MaxAuthSeconds in a
\* row), or the lifetime of a token
ClockAdvance(dt) ==
    /\ IF dt = 1 THEN now % REFRESH_TOKEN_EXPIRES < MaxAuthSeconds
       ELSE now < REFRESH_TOKEN_EXPIRES
    /\ now' = now + dt
    /\ op' = "clock"
    /\ UNCHANGED <<outcome, extvars, data, validation, train, model_scores, models_dir,
                   scaler_fitted, fitted, prediction, pipeline, r2, weights, fitted_on,
                   featvars, dirvars>>

\* the caller passes another table to the next call
LoadTable(d) ==
    /\ d # data
    /\ op' = "load_table"
    /\ data' = d
    /\ UNCHANGED <<outcome, extvars, now, validation, train, model_scores, models_dir, scaler_fitted, fitted,
                   prediction, pipeline, r2, weights, fitted_on, featvars, dirvars>>

\* a training run of who has fitted its models and reaches its first dump
StartRun(who) ==
    /\ writer.who = "idle"
    /\ Len(runs) < MaxRuns
    /\ runs' = Append(runs, "writing")
    /\ writer' = [who |-> who, run |-> Len(runs) + 1, step |-> 1, open |-> FALSE,
                  ts |-> NoStamp]
    /\ op' = "start_run"
    /\ UNCHANGED <<outcome, extvars, now, data, validation, train, model_scores, models_dir, scaler_fitted,
                   fitted, prediction, pipeline, r2, weights, fitted_on, featvars, files,
                   api, response>>

\* joblib.dump opens the file of the current step
BeginDump ==
    /\ writer.who # "idle"
    /\ ~writer.open
    /\ LET nm == DumpName(writer, now)
       IN  /\ files' = WriteFile(files, [name |-> nm, run |-> writer.run,
                                         kind |-> Dumps(writer.who)[writer.step][2],
                                         whole |-> FALSE])
           /\ writer' = [writer EXCEPT !.open = TRUE,
                                       !.ts = IF nm[2] = NoStamp THEN @ ELSE nm[2]]
    /\ op' = "dump"
    /\ UNCHANGED <<outcome, extvars, now, data, validation, train, model_scores, models_dir, scaler_fitted,
                   fitted, prediction, pipeline, r2, weights, fitted_on, featvars, api,
                   response, runs>>

\* joblib.dump returns; after the last dump the run returns
EndDump ==
    /\ writer.who # "idle"
    /\ writer.open
    /\ LET dp == Dumps(writer.who)[writer.step]
           nm == <<dp[1], IF dp[3] = "none" THEN NoStamp ELSE writer.ts>>
           last == writer.step = Len(Dumps(writer.who))
       IN  /\ files' = {IF f.name = nm THEN [f EXCEPT !.whole = TRUE] ELSE f : f \in files}
           /\ writer' = IF last THEN NoWriter
                        ELSE [writer EXCEPT !.open = FALSE, !.step = @ + 1]
           /\ runs' = IF last THEN [runs EXCEPT ![writer.run] = "complete"] ELSE runs
    /\ op' = "dumped"
    /\ UNCHANGED <<outcome, extvars, now, data, validation, train, model_scores, models_dir, scaler_fitted,
                   fitted, prediction, pipeline, r2, weights, fitted_on, featvars, api,
                   response>>

\* the run ends in an exception (joblib.dump raises) or the process is killed
Abort ==
    /\ writer.who # "idle"
    /\ writer' = NoWriter
    /\ runs' = [runs EXCEPT ![writer.run] = "aborted"]
    /\ op' = "abort"
    /\ UNCHANGED <<outcome, extvars, now, data, validation, train, model_scores, models_dir, scaler_fitted,
                   fitted, prediction, pipeline, r2, weights, fitted_on, featvars, files,
                   api, response>>

\* the wall clock reaches the next minute
Tick ==
    /\ now < MaxMinutes * SecondsPerMinute
    /\ now' = now + SecondsPerMinute
    /\ op' = "tick"
    /\ UNCHANGED <<outcome, extvars, data, validation, train, model_scores, models_dir, scaler_fitted,
                   fitted, prediction, pipeline, r2, weights, fitted_on, featvars, dirvars>>

\* ModelAPI(): api.load_latest_model()
LoadLatestModel ==
    /\ api' = load_latest_model(files)
    /\ response' = None
    /\ op' = "load_latest_model"
    /\ UNCHANGED <<outcome, extvars, now, data, validation, train, model_scores, models_dir, scaler_fitted,
                   fitted, prediction, pipeline, r2, weights, fitted_on, featvars, files,
                   writer, runs>>

\* POST /api/predict with a valid token
Predict ==
    /\ api.loaded
    /\ response' = Some(predict(api))
    /\ op' = "predict"
    /\ UNCHANGED <<outcome, extvars, now, data, validation, train, model_scores, models_dir, scaler_fitted,
                   fitted, prediction, pipeline, r2, weights, fitted_on, featvars, files,
                   writer, api, runs>>

(*************************** specifications ********************************)
\* the pipeline and the predictor on the tables combine_data returns
Init == InitWith(CombinedTables, MaxLate)
Next ==
    \/ CheckDataQuality
    \/ TrainModels(DefaultForecastDays)
    \/ EnsemblePredict
    \/ \E viz_raises \in BOOLEAN : RunPipeline(viz_raises)
Spec == Init /\ [][Next]_vars

\* check_data_quality on any table
InitGate == InitWith(GateTables, MaxLate)
NextGate == CheckDataQuality
SpecGate == InitGate /\ [][NextGate]_vars

\* one call of train_models, on any table, with any horizon
InitTrain == InitWith(TrainTables, 0)
NextTrain == op = "init" /\ \E h \in Horizons : TrainModels(h)
SpecTrain == InitTrain /\ [][NextTrain]_vars

\* the weight normalisation on any scores
InitWeights ==
    /\ data = EmptyFrame /\ now = 0 /\ op = "init" /\ validation = None /\ train = NoTrain
    /\ model_scores = None /\ models_dir = {} /\ scaler_fitted = None /\ fitted = {}
    /\ prediction = None /\ pipeline = NoPipeline /\ weights = None
    /\ fitted_on = NotFitted /\ InitFeatures /\ InitDir /\ InitExt
    /\ r2 \in Scores
NextWeights == NormalizeWeights
SpecWeights == InitWeights /\ [][NextWeights]_vars

\* one predictor object trained and asked to predict on tables of different
\* columns: the tables of the first long horizon, on which the folds run
PredictTables == {d \in GapTables : NRows(d) = 2 * LongHorizon}
InitPredict == InitWith(PredictTables, 0)
NextPredict ==
    \/ \E d \in PredictTables : LoadTable(d)
    \/ TrainModels(LongHorizon)
    \/ EnsemblePredict
SpecPredict == InitPredict /\ [][NextPredict]_vars

\* the models directory: training runs writing, the API loading and answering
InitModels ==
    /\ data = EmptyFrame /\ now = 0 /\ op = "init" /\ validation = None /\ train = NoTrain
    /\ model_scores = None /\ models_dir = {} /\ scaler_fitted = None /\ fitted = {}
    /\ prediction = None /\ pipeline = NoPipeline /\ weights = None /\ r2 = NoScores
    /\ fitted_on = NotFitted /\ InitFeatures /\ InitDir /\ InitExt
NextModels ==
    \/ \E who \in Writers : StartRun(who)
    \/ BeginDump
    \/ EndDump
    \/ Abort
    \/ Tick
    \/ LoadLatestModel
    \/ Predict
SpecModels == InitModels /\ [][NextModels]_vars

\* the feature engineers, called before and after the predictor is trained
InitFeatureCalls == InitWith(FeatureTables, 0)
NextFeatureCalls ==
    \/ CreateFeatures
    \/ PrepareFeatures
    \/ TrainModels(DefaultForecastDays)
SpecFeatureCalls == InitFeatureCalls /\ [][NextFeatureCalls]_vars

\* both predictors trained and asked to predict, on tables of the same and
\* of different columns, in an environment where no fit and no dump fails
InitForecast == InitWith(PredictTables, 0)
NextForecast ==
    \/ \E d \in PredictTables : LoadTable(d)
    \/ TrainModels(LongHorizon) /\ outcome'.raised \notin Faults \ {NoError}
    \/ EnsemblePredict
    \/ TrendTrain(LongHorizon) /\ outcome'.raised \notin TrendFaults \ {NoError}
    \/ TrendPredict
SpecForecast == InitForecast /\ [][NextForecast]_vars

\* the quality checker on directories holding up to two files, at noon of
\* day 4 or of day 5
QualityTimes == {4 * SecondsPerDay + SecondsPerDay \div 2, 5 * SecondsPerDay + SecondsPerDay \div 2}
InitQuality ==
    /\ data = EmptyFrame /\ op = "init" /\ validation = None /\ train = NoTrain
    /\ model_scores = None /\ models_dir = {} /\ scaler_fitted = None /\ fitted = {}
    /\ prediction = None /\ pipeline = NoPipeline /\ weights = None /\ r2 = NoScores
    /\ fitted_on = NotFitted /\ InitFeatures /\ InitDir
    /\ outcome = NoOutcome /\ quality = None /\ processed = None /\ combined = None
    /\ auth = NoAuth /\ reply = None
    /\ now \in QualityTimes
    /\ disk \in Disks
NextQuality ==
    \/ CheckDataFreshness
    \/ AnalyzeSentimentDistribution
    \/ CheckDataConsistency
    \/ GetLatestData
    \/ GenerateQualityReport
SpecQuality == InitQuality /\ [][NextQuality]_vars

\* the core operations as a host process calls them: one call on a fresh
\* object, or a predict after the train of the same predictor, on tables
\* of one row, of 2h rows with a gap, empty, and the 60-row scenario, and
\* on a processed directory of up to one combined file of two rows
CoreTables ==
    {EmptyFrame, ScenarioTable} \cup {d \in GateTables : NRows(d) <= 1} \cup PredictTables
CoreDisks ==
    {d \in Disks : /\ d.sources = {}
                   /\ \A f \in d.combined : f.name = <<1, 480>> /\ Len(f.content.dates) = 2}
FirstCall == outcome = NoOutcome
InitCore ==
    /\ InitTables(CoreTables, 0)
    /\ outcome = NoOutcome /\ quality = None /\ processed = None /\ combined = None
    /\ auth = NoAuth /\ reply = None
    /\ disk \in CoreDisks
NextCore ==
    \/ FirstCall /\ CheckDataQuality
    \/ FirstCall /\ \E h \in {DefaultForecastDays, LongHorizon} : TrainModels(h)
    \/ (FirstCall \/ outcome.name = "train_models") /\ EnsemblePredict
    \/ FirstCall /\ \E h \in {DefaultForecastDays, LongHorizon} : TrendTrain(h)
    \/ (FirstCall \/ outcome.name = "TrendPredictor.train") /\ TrendPredict
    \/ FirstCall /\ GenerateQualityReport
SpecCore == InitCore /\ [][NextCore]_vars

\* the refresh endpoint: at second 0 the table holds one refresh token per
\* user, issued by generate_tokens at that second
AuthUsers == {1, 2}
IssuedAtStart(unique) ==
    [tokens |-> <<[token |-> encode(1, "refresh", REFRESH_TOKEN_EXPIRES), user_id |-> 1,
                   expires_at |-> REFRESH_TOKEN_EXPIRES],
                  [token |-> encode(2, "refresh", REFRESH_TOKEN_EXPIRES), user_id |-> 2,
                   expires_at |-> REFRESH_TOKEN_EXPIRES]>>,
     unique |-> unique,
     issued |-> {encode(u, "refresh", REFRESH_TOKEN_EXPIRES) : u \in AuthUsers},
     rotated |-> {}]
InitAuth ==
    /\ data = EmptyFrame /\ now = 0 /\ op = "init" /\ validation = None /\ train = NoTrain
    /\ model_scores = None /\ models_dir = {} /\ scaler_fitted = None /\ fitted = {}
    /\ prediction = None /\ pipeline = NoPipeline /\ weights = None /\ r2 = NoScores
    /\ fitted_on = NotFitted /\ InitFeatures /\ InitDir
    /\ outcome = NoOutcome /\ quality = None /\ disk = NoDisk /\ combined = None
    /\ processed = None /\ reply = None
    /\ \E unique \in BOOLEAN : auth = IssuedAtStart(unique)
NextAuth ==
    \/ Refresh
    \/ \E dt \in {1, REFRESH_TOKEN_EXPIRES} : ClockAdvance(dt)
SpecAuth == InitAuth /\ [][NextAuth]_vars

\* combine_data on every processed_data of the inputs above
InitCombine ==
    /\ InitTables({EmptyFrame}, 0)
    /\ outcome = NoOutcome /\ quality = None /\ disk = NoDisk /\ combined = None
    /\ auth = NoAuth /\ reply = None
    /\ processed \in {Some(p) : p \in ProcessedInputs}
NextCombine == CombineData
SpecCombine == InitCombine /\ [][NextCombine]_vars

(***************************** claims **************************************)
Checked == op = "check_data_quality"
Trained == op = "train_models"
Result == validation[1]
MarketCol == data.col["market_change"]
AgeSeconds == now - LatestDay(data) * 86400
MissingIn(c) == Cardinality({i \in 1..NRows(data) : data.col[c][i] = NaN})

\* C1: in a pipeline run the trainer is invoked only for a table on which the
\* gate returned is_valid = true; for a table that fails the gate training is
\* refused: it returns a failure value and persists no artifact.
C1_TrainerBehindGate ==
    op = "run_pipeline" =>
        /\ pipeline.train_invoked => Result.is_valid
        /\ ~Result.is_valid => (model_scores = None /\ train.written = {})

\* C2: check_data_quality returns is_valid = false whenever the table is
\* empty, or has fewer than 7 rows, or has a column with more than 50% missing
\* values, or has a latest index date more than 7 days before the evaluation.
C2_GateRejects ==
    (/\ Checked
     /\ \/ NRows(data) = 0 \/ Len(data.columns) = 0
        \/ NRows(data) < 7
        \/ \E c \in Range(data.columns) : 2 * MissingIn(c) > NRows(data)
        \/ data.dated /\ AgeSeconds > 7 * 86400)
    => ~Result.is_valid

\* a stale table with nothing else wrong is rejected
C2_Witness ==
    /\ Checked
    /\ NRows(data) >= 7
    /\ data.dated
    /\ \A c \in Range(data.columns) : MissingIn(c) = 0
    /\ AgeSeconds > 7 * 86400
    /\ ~Result.is_valid

\* C3 as stated: a table with at least 7 rows, at most 50% missing values in
\* each column (exactly 50% included) and a latest index date at most 7 days
\* old is returned is_valid = true with an empty issues list.
C3_AnyTableAccepted ==
    (/\ Checked
     /\ data.dated
     /\ NRows(data) >= 7
     /\ \A c \in Range(data.columns) : 2 * MissingIn(c) <= NRows(data)
     /\ AgeSeconds <= 7 * 86400)
    => (Result.is_valid /\ Result.issues = <<>>)

\* C3, amended: a table with at least one column, at least 7 rows, at most 50%
\* missing values in each column (exactly 50% included) and a latest index
\* date at most 7 days old is returned is_valid = true with an empty issues
\* list. (A table without columns is empty, whatever its row count.)
C3_GateAccepts ==
    (/\ Checked
     /\ data.dated
     /\ Len(data.columns) > 0
     /\ NRows(data) >= 7
     /\ \A c \in Range(data.columns) : 2 * MissingIn(c) <= NRows(data)
     /\ AgeSeconds <= 7 * 86400)
    => (Result.is_valid /\ Result.issues = <<>>)

\* a table with a column missing exactly half its values, exactly 7 days old
C3_Witness ==
    /\ Checked
    /\ NRows(data) >= 7
    /\ \E c \in Range(data.columns) : 2 * MissingIn(c) = NRows(data)
    /\ AgeSeconds = 7 * 86400
    /\ Result.is_valid
    /\ Result.issues = <<>>

\* C4: check_data_quality returns a populated stats structure (row count,
\* column count, date range, per-column missing percentage) for every input
\* table, the rejected ones included.
C4_StatsAlways ==
    Checked => DOMAIN Result.stats = {"rows", "columns", "date_range", "missing_values"}

\* C5: for any member R2 scores (all-negative, zero-sum, mixed-sign included)
\* the normalized ensemble weights are each >= 0 and sum to 1.
C5_WeightsNormalized ==
    op # "init" =>
        /\ weights # None
        /\ \A m \in Range(Members) :
              /\ weights[1][m][2] # 0
              /\ weights[1][m][1] * weights[1][m][2] >= 0
              /\ SumSeq([k \in 1..Len(Members) |-> weights[1][Members[k]][1]])
                   = weights[1][m][2]

\* C6: in every fold used by train, every validation row is dated strictly
\* later than every training row, the training rows are a prefix of the
\* series, and no validation row is in the fold's training set.
DateOf(j) == data.index[train.X_rows[j]]
C6_WalkForward ==
    Trained =>
        \A k \in 1..Len(train.folds) :
            LET tr == train.folds[k].train
                va == train.folds[k].val
            IN  /\ \A a \in 1..Len(tr), b \in 1..Len(va) : DateOf(tr[a]) < DateOf(va[b])
                /\ \A a \in 1..Len(tr) : tr[a] = a
                /\ Range(tr) \cap Range(va) = {}

\* a call in which all five folds ran, each with training and validation rows
C6_Witness ==
    /\ Trained
    /\ Len(train.folds) = 5
    /\ \A k \in 1..5 : train.folds[k].train # <<>> /\ train.folds[k].val # <<>>
    /\ \E k \in 1..5 : Len(train.folds[k].val) > 1

\* C7: with horizon h the target paired with the feature row of date t is the
\* target column's value at date t + h, and the most recent h rows are left
\* out: a table of N rows without missing targets yields N - h training rows.
C7_TargetShift ==
    (/\ Trained
     /\ data.dated
     /\ HasColumn(data, "market_change")
     /\ NRows(data) >= train.h
     /\ \A i \in 1..NRows(data) : MarketCol[i] # NaN)
    => /\ Len(train.X_rows) = NRows(data) - train.h
       /\ \A k \in 1..Len(train.X_rows) :
             /\ train.X_rows[k] = k
             /\ train.y[k] = MarketCol[k + train.h][1]

\* a table with more rows than the horizon, some of them kept
C7_Witness ==
    /\ Trained
    /\ data.dated
    /\ HasColumn(data, "market_change")
    /\ \A i \in 1..NRows(data) : MarketCol[i] # NaN
    /\ train.h = 7
    /\ NRows(data) = 14
    /\ Len(train.X_rows) = 7
    /\ train.y[1] = MarketCol[8][1]
    /\ MarketCol[8] # MarketCol[1]

\* C8: train on 60 daily rows with market_change 0.0 and both sentiments 0.1,
\* horizon 7, succeeds: a metrics dict (mse, rmse, r2, mape) for each of the 4
\* members, and 4 member artifacts persisted.
C8_ScenarioTrains ==
    (Trained /\ data = ScenarioTable /\ train.h = 7) =>
        /\ model_scores # None
        /\ DOMAIN model_scores[1] = Range(Members)
        /\ \A m \in Range(Members) : model_scores[1][m] = {"mse", "rmse", "r2", "mape"}
        /\ train.written = Range(Members)

\* C9: after any call to train, for every member either its artifact is
\* persisted and its metrics are reported to the caller, or neither; and when
\* feature preparation fails no artifact is persisted.
C9_AllOrNothing ==
    Trained =>
        /\ \A m \in Range(Members) :
              (m \in train.written) <=> (model_scores # None /\ m \in DOMAIN model_scores[1])
        /\ train.raised \in {<<"features">>, <<"KeyError">>, <<"scaler">>, <<"split">>}
              => train.written = {}

\* C10: if writing an artifact (a member model or the scaler) fails during
\* train, train still returns the metrics already computed in memory.
C10_MetricsSurviveDump ==
    (Trained /\ train.raised[1] = "dump") =>
        /\ model_scores # None
        /\ train.computed \subseteq DOMAIN model_scores[1]

\* C11: at prediction time a member whose expected feature list differs from
\* the engineered table's columns is skipped, and prediction still returns a
\* forecast from the remaining members whenever at least one member matches.
NowColumns == DropColumn(FeatureColumns(data), <<"market_change">>)
C11_PartialEnsemble ==
    (/\ op = "ensemble_predict"
     /\ scaler_fitted = Some(NowColumns)
     /\ \E m \in Range(Members) : fitted_on[m] = Some(NowColumns)
     /\ \E m \in Range(Members) : fitted_on[m] # None /\ fitted_on[m] # Some(NowColumns))
    => prediction # None

\* C12: a model is never used for prediction with a scaler other than the one
\* it was fitted with: a prediction request served while no model is loaded,
\* or while the loaded model and scaler come from different training runs, is
\* answered with a failure and no forecast; and ensemble_predict returns a
\* forecast only if every member was fitted in a call that fitted the scaler
\* on the same columns.
C12_PairedScaler ==
    /\ op = "predict" =>
          \/ response[1].status # 200
          \/ /\ api.model # None
             /\ api.scaler # None
             /\ api.model[1].kind = "model"
             /\ api.scaler[1].kind = "scaler"
             /\ api.model[1].run = api.scaler[1].run
    /\ (op = "ensemble_predict" /\ prediction # None) =>
          \A m \in Range(Members) : fitted_on[m] = scaler_fitted

\* C13: across training runs an artifact file once written is never
\* overwritten or changed by a later run: no step replaces the content of a
\* fully written file by the content of another run.
C13_WriteOnce ==
    [][\A f \in files : \A g \in files' : (f.whole /\ g.name = f.name) => g.run = f.run]_vars

\* C14: a reader that selects the latest artifacts while a training run is
\* writing, after some run was fully written, obtains a complete set (a member
\* model and the scaler of the same run) of the most recent fully written run,
\* never files of the run in progress.
LastComplete == CHOOSE r \in DOMAIN runs :
                    runs[r] = "complete" /\ \A q \in DOMAIN runs : runs[q] = "complete" => q <= r
C14_ReaderSeesCompleteRun ==
    (/\ op = "load_latest_model"
     /\ writer.who # "idle"
     /\ \E r \in DOMAIN runs : runs[r] = "complete")
    => /\ api.model # None
       /\ api.scaler # None
       /\ api.model[1].kind = "model"
       /\ api.model[1].run = LastComplete
       /\ api.scaler[1].run = LastComplete

\* C15: the file load_latest_model selects as latest is a trained model
\* artifact whose timestamp is the maximum among all persisted model
\* artifacts, whatever files are in the directory.
C15_LatestIsNewestModel ==
    (op = "load_latest_model" /\ \E f \in files : f.kind = "model" /\ f.whole)
    => /\ api.selected # None
       /\ FileAt(files, api.selected[1]).kind = "model"
       /\ \A f \in files : (f.kind = "model" /\ f.whole) => f.name[2] <= api.selected[1][2]

\* what create_advanced_features returned in call k, at row i of column f
Advanced(k) == features_log[k].who = "advanced" /\ ~features_log[k].table.raises
ColumnPos(k, f) ==
    CHOOSE q \in 1..Len(features_log[k].table.columns) : features_log[k].table.columns[q] = f
CellOf(k, f, i) == features_log[k].table.cell[i][ColumnPos(k, f)]

\* the delta of market_change at row j (0 where it is undefined)
Delta(j) ==
    IF j < 2 \/ MarketCol[j] = NaN \/ MarketCol[j - 1] = NaN THEN 0
    ELSE MarketCol[j][1] - MarketCol[j - 1][1]
HasGain(w, i) == \E j \in Max2(1, i - w + 1)..i : Delta(j) > 0
HasLoss(w, i) == \E j \in Max2(1, i - w + 1)..i : Delta(j) < 0
InRange(v) == v[1] = "frac" /\ v[3] > 0 /\ 0 <= v[2] /\ v[2] <= 100 * v[3]
RsiWindows == {3, 7, 14}

C17_NoLossGivesNaN ==
    \A k \in 1..Len(features_log) :
        (features_log[k].who = "advanced" /\ data.dated /\ HasColumn(data, "market_change")) =>
            /\ ~features_log[k].table.raises
            /\ \A w \in RsiWindows, i \in 1..NRows(data) :
                  ~HasLoss(w, i) => CellOf(k, <<"market", "rsi", w>>, i) = <<"nan">>

\* C18: for every signal present (reddit_sentiment, news_sentiment and
\* market_change alike) and every window size w in {3, 7, 14}, the rolling mean
\* is defined from the first row on: at a row before the w-th whose values so
\* far are all present it is the mean of those values, not a missing value.
MeanColumn(c, w) == IF c = "market_change" THEN <<"market", "ma", w>> ELSE <<c, "ma", w>>
C18_PartialWindowMean ==
    \A k \in 1..Len(features_log) :
        Advanced(k) =>
            \A c \in Range(data.columns), w \in RsiWindows, i \in 1..NRows(data) :
                (i < w /\ \A j \in 1..i : data.col[c][j] # NaN)
                    => CellOf(k, MeanColumn(c, w), i)
                         = <<"frac", SumSeq([j \in 1..i |-> data.col[c][j][1]]), i>>

\* C19: in train every missing value of the feature table is filled before
\* scaling and fitting: the array passed to each member's fit holds no
\* missing value.
C19_FitInputImputed ==
    Trained =>
        \A k \in 1..Len(train.fit_inputs) :
            \A j \in 1..Len(train.fit_inputs[k]) : train.fit_inputs[k][j] # "nan"

C26_OneStampPerRun ==
    \A f, g \in files :
        (writer.who = "advanced" /\ f.run = writer.run /\ g.run = writer.run)
            => f.name[2] = g.name[2]

\* C27: after a successful train on a table, predict on a table with the same
\* columns succeeds and returns a forecast series whose index equals the input
\* table's index (TrendPredictor.train / predict and AdvancedPredictor
\* train_models / ensemble_predict).
C27_PredictAfterTrain ==
    /\ (op = "TrendPredictor.predict" /\ trend.trained_on = Some(data.columns))
          => (outcome.ret # None /\ outcome.ret[1].index = data.index)
    /\ (op = "ensemble_predict" /\ model_scores # None /\ scaler_fitted = Some(NowColumns))
          => (prediction # None /\ prediction[1].index = data.index)

\* the combined table the checker reads, when it is one: a readable file
\* with a date column, dates and at least one row
ReadTable == LatestCombined(disk.combined).content
ValidTable ==
    /\ disk.combined # {}
    /\ ReadTable.readable /\ HasDateCol(ReadTable) /\ ReadTable.dated
    /\ Len(ReadTable.dates) > 0
OutOfRange(k) ==
    \E i \in 1..Len(ReadTable.dates) :
        /\ ReadTable.col[k][i] # NaN
        /\ (ReadTable.col[k][i][1] > SentimentMax \/ ReadTable.col[k][i][1] < 0 - SentimentMax)
Flagged ==
    (op = "check_data_consistency" /\ ValidTable) =>
        /\ outcome.raised = NoError
        /\ ~outcome.escaped
        /\ quality # None
        /\ \A k \in Range(ReadTable.columns) :
              (IsSentiment(k) /\ OutOfRange(k))
                 => (k \in DOMAIN quality[1].value_ranges
                     /\ ~quality[1].value_ranges[k].within_range)

\* C22: for a combined table in which a sentiment column contains a value
\* outside [-1, 1], check_data_consistency records within_range = false for
\* that column, raises no exception and leaves the stored table unchanged.
C22_RangeViolationFlagged ==
    [][(op' = "check_data_consistency") => (disk' = disk /\ Flagged')]_vars

\* a table whose reddit_sentiment column holds 5.0 was checked and flagged
C22_Witness ==
    /\ op = "check_data_consistency"
    /\ ValidTable
    /\ quality # None
    /\ "reddit_sentiment" \in DOMAIN quality[1].value_ranges
    /\ quality[1].value_ranges["reddit_sentiment"].max = 50
    /\ ~quality[1].value_ranges["reddit_sentiment"].within_range

\* C23: check_data_consistency reports as date_gaps exactly the calendar days
\* d with min(date) <= d <= max(date) that do not occur in the table, and
\* missing_dates equals the number of such days.
MissingDays ==
    {d \in MinSeq(ReadTable.dates)..MaxSeq(ReadTable.dates) : d \notin Range(ReadTable.dates)}
C23_DateGapsExact ==
    (op = "check_data_consistency" /\ quality # None) =>
        /\ Range(quality[1].date_gaps) = MissingDays
        /\ Len(quality[1].date_gaps) = Cardinality(MissingDays)
        /\ quality[1].missing_dates = Cardinality(MissingDays)

\* a table with the dates 1, 1, 4 was checked: the gaps are the days 2 and 3
C23_Witness ==
    /\ op = "check_data_consistency"
    /\ quality # None
    /\ ReadTable.dates = <<1, 1, 4>>
    /\ quality[1].date_gaps = <<2, 3>>
    /\ quality[1].missing_dates = 2

\* C24: for each source, check_data_freshness reports the age in days of
\* that source's most recent dated file among all files found in the raw,
\* processed and analysis directories, and is_fresh is true exactly when that
\* age is at most 1 day.
DatedFiles(src) == {f \in find_data_files(disk.sources, src) : f.day # None}
NewestDay(src) == CHOOSE d \in {f.day[1] : f \in DatedFiles(src)} :
                     \A f \in DatedFiles(src) : f.day[1] <= d
C24_FreshnessOfNewest ==
    op = "check_data_freshness" =>
        \A src \in Range(SourceNames) :
            DatedFiles(src) # {} =>
                /\ quality[1][src].days_old = Some(DaysOld(now, NewestDay(src)))
                /\ quality[1][src].is_fresh = (DaysOld(now, NewestDay(src)) <= 1)

\* C28: get_latest_data returns the contents of the combined_data_ file with
\* the most recent date in its name, for any set of files named
\* combined_data_YYYYMMDD_HHMM.csv, and None when there is no such file or
\* the file is empty.
C28_LatestByDate ==
    op = "get_latest_data" =>
        IF disk.combined = {} THEN quality = None
        ELSE IF ~ReadTable.readable \/ Len(ReadTable.dates) = 0 THEN quality = None
        ELSE quality = Some(ReadTable)

\* C21: every core operation returns a value and lets no exception reach
\* its caller; when its body raised, the value returned is the operation's
\* failure value (is_valid false, None, or False for TrendPredictor.train)
CoreOps ==
    {"check_data_quality", "train_models", "ensemble_predict", "TrendPredictor.train",
     "TrendPredictor.predict", "generate_quality_report"}
FailureValue(o) ==
    CASE o.name = "check_data_quality" -> o.ret # None /\ ~o.ret[1].is_valid
      [] o.name = "TrendPredictor.train" -> o.ret = Some(FALSE)
      [] OTHER -> o.ret = None
Failed(o) == o.name \in CoreOps /\ o.raised # NoError
SeenDays(p) ==
    UNION {Range(p[x][1].days) \ {NaT} : x \in {y \in Range(DateSources) : p[y] # None}}
StrictlyIncreasing(s) == \A i, j \in DOMAIN s : i < j => s[i] < s[j]
VariantCells == {Num(0), Num(9)}
SameScaled(a, b) == (IsNaN(a) /\ IsNaN(b)) \/ (~IsNaN(a) /\ ~IsNaN(b) /\ a[1] * b[2] = b[1] * a[2])
C29_ScalingFromTrainingRows ==
    (op = "train_models" /\ model_scores # None) =>
        \A k \in DOMAIN train.folds, c \in DOMAIN train.X_scaled :
            \A j \in (1..Len(train.X_rows)) \ Range(train.folds[k].train), v \in VariantCells :
                LET d2 == [data EXCEPT !.col[c][train.X_rows[j]] = v]
                    other == ScaledRaw(d2, train.target, train.X_rows)
                IN  \A i \in Range(train.folds[k].train) :
                        SameScaled(train.X_scaled[c][i], other[c][i])

\* C30: refresh tokens rotate: after a 200 the token returned is stored and
\* the token presented is not; a token presented in an earlier successful
\* refresh is answered 401; a stored, unexpired token that was never used is
\* accepted
C30_RefreshRotates ==
    (op = "refresh" /\ reply # None) =>
        LET r == reply[1]
        IN  /\ r.status = 200 => /\ Stored(auth.tokens, r.refresh_token[1])
                                 /\ ~Stored(auth.tokens, r.presented[1])
            /\ r.replayed => r.status = 401
            /\ r.live => r.status = 200

====
